---- MODULE Spec2Model ----
(***************************************************************************)
(* Model of the Bhuvan / KGIS site-analysis gateway.                       *)
(*                                                                         *)
(*   Spec         the nine request handlers of api/views.py working on the *)
(*                audit tables of api/models.py, several requests at once  *)
(*   SpecTokens   BhuvanTokenManager and the construction of GeoidAPI      *)
(*   SpecRouting  RoutingAPI.get_route with its pre-flight check           *)
(*   SpecParams   the outbound query every client builds                   *)
(*   SpecBatch    the batch village lookups                                *)
(*   SpecPolygon  the polygon and bounding-box conversions of the LULC     *)
(*                client                                                   *)
(*   SpecShaping  the shaping step (_format_response) of the clients       *)
(*   SpecClient   one client operation: outbound call and file writes      *)
(*   SpecKgis     the KGIS services and their endpoints                    *)
(***************************************************************************)
EXTENDS Integers, Sequences, FiniteSets, TLC

VARIABLES
    audit,      \* table ApiRequest: audit[pk] is the stored row
    inputs,     \* the nine *Input tables: the set of rows, each with its foreign key
    req,        \* per request slot: position in the handler and its locals
    tokens,     \* BhuvanTokenManager.tokens
    tk,         \* the last token-manager / GeoidAPI operation and its outcome
    rt,         \* the last RoutingAPI.get_route call and its outcome
    pq,         \* the last outbound query a client built
    bt,         \* the last batch lookup and its outcome
    pg,         \* the last polygon conversion of LULCAOIWiseAPI and its outcome
    sh,         \* the last provider value given to a client's shaping step
    op,         \* the running client operation: outbound calls and file writes
    kg          \* the last KGIS service call and its outcome

vars == <<audit, inputs, req, tokens, tk, rt, pq, bt, pg, sh, op, kg>>

\* Python's None and a present value.
None == <<>>
Some(x) == <<x>>

\* The sequences over S of length at most n.
SeqsUpTo(S, n) == UNION { [1..m -> S] : m \in 0..n }

\* Parsed JSON values (the result of response.json()), tagged by type.
JNull == [t |-> "null"]
JNum(n) == [t |-> "num", n |-> n]
JStr(str) == [t |-> "str", s |-> str]
JList(items) == [t |-> "list", items |-> items]
JDict(fields) == [t |-> "dict", fields |-> fields]

\* Python's truth value of a parsed JSON value.
truthy(x) ==
    CASE x.t = "null" -> FALSE
      [] x.t = "num" -> x.n # 0
      [] x.t = "str" -> x.s # ""
      [] x.t = "list" -> x.items # <<>>
      [] x.t = "dict" -> DOMAIN x.fields # {}

\* d.get(key, default) of a dict
get(d, key, default) == IF key \in DOMAIN d.fields THEN d.fields[key] ELSE default

\* a or b
or(a, b) == IF truthy(a) THEN a ELSE b

\* `key in x`: membership in a dict's keys or a list's items; the strings of
\* the modelled responses never contain a key as a substring; a number or
\* null is not iterable (TypeError).
contains(x, key) ==
    CASE x.t = "dict" -> Some(key \in DOMAIN x.fields)
      [] x.t = "list" -> Some(\E k \in 1..Len(x.items) :
                                 x.items[k].t = "str" /\ x.items[k].s = key)
      [] x.t = "str" -> Some(FALSE)
      [] OTHER -> None

ShRaise(exception) == [kind |-> "raise", exception |-> exception]

\* len(x)
len(x) ==
    CASE x.t = "list" -> Some(Len(x.items))
      [] x.t = "dict" -> Some(Cardinality(DOMAIN x.fields))
      [] x.t = "str" -> Some(Len(x.s))
      [] OTHER -> None

(***************************************************************************)
(* api/views.py: the request handlers                                      *)
(***************************************************************************)

\* Number of request slots (requests that may be in flight together).
MaxRequests == 2

Slots == 1..MaxRequests

Endpoints ==
    { "/thematic_statistics", "/lulc_aoi_statistics", "/lulc_polygon_statistics",
      "/lulc_bounding_box_statistics", "/geoid_elevation", "/routing",
      "/postal_hospital_proximity", "/village_geocoding",
      "/village_reverse_geocoding" }

\* Bounding boxes <<min_lng, min_lat, max_lng, max_lat>> a caller may send:
\* BoundingBox (schemas.py) takes any four floats.
BBoxes == { <<0, 0, 1, 1>>, <<0, 1, 1, 0>> }

\* Request bodies per endpoint; only the bounding box decides anything in
\* the handler, the other bodies are passed through.
Bodies(ep) == IF ep = "/lulc_bounding_box_statistics" THEN BBoxes ELSE { <<>> }

\* CheckConstraint chk_bounding_box of LULCBoundingBoxStatisticsInput.
chk_bounding_box(b) ==
    /\ b[2] <= b[4]
    /\ b[1] <= b[3]
    /\ b[2] >= -90 /\ b[4] <= 90
    /\ b[1] >= -180 /\ b[3] <= 180

\* Whether <Endpoint>Input.objects.create(...) stores the row or raises.
InputCreateOk(ep, body) ==
    IF ep = "/lulc_bounding_box_statistics" THEN chk_bounding_box(body) ELSE TRUE

\* What a client operation hands back to its handler.
\*   kind "return", error None     a shaped summary
\*   kind "return", error Some(m)  a value with an embedded error field
\*   kind "raise",  error Some(m)  an exception whose str() is m
Returned(ep) == [kind |-> "return", payload |-> ep, error |-> None]
ReturnedError(ep, m) == [kind |-> "return", payload |-> ep, error |-> Some(m)]
Raised(m) == [kind |-> "raise", payload |-> "", error |-> Some(m)]

\* ThematicStatisticsAPI.get_statistics: provider failures come back as
\* {'error': ...}; nothing is raised.
ThematicOutcomes ==
    { Returned("/thematic_statistics"),
      ReturnedError("/thematic_statistics", "Request failed") }

\* RoutingAPI.get_route: every failure becomes _create_error_response.
RoutingOutcomes ==
    { Returned("/routing"), ReturnedError("/routing", "API request failed") }

\* GeoidAPI.get_elevation_data: every failure becomes a simulated response.
GeoidOutcomes == { Returned("/geoid_elevation") }

\* The other clients log and re-raise.
RaisingOutcomes(ep) == { Returned(ep), Raised("API request failed") }

ClientOutcomes(ep) ==
    CASE ep = "/thematic_statistics" -> ThematicOutcomes
      [] ep = "/routing" -> RoutingOutcomes
      [] ep = "/geoid_elevation" -> GeoidOutcomes
      [] OTHER -> RaisingOutcomes(ep)

\* A row of ApiRequest as ApiRequest.objects.create(endpoint=...) makes it.
NewApiRequest(ep) ==
    [endpoint |-> ep, status |-> "pending", response_data |-> None,
     error_message |-> None]

IdleReq ==
    [pc |-> "idle", endpoint |-> "", body |-> <<>>, pk |-> 0,
     api_request |-> NewApiRequest(""), client |-> None, result |-> None,
     e |-> None, response |-> [kind |-> "none", data |-> None, error |-> None]]

\* try-branch of a handler after the client returned `result`.
OnClientReturn(obj, result) ==
    [obj EXCEPT !.status = "success", !.response_data = Some(result)]

\* A handler that files the failure under response_data as well (the comment
\* on ApiRequest.response_data reads "Stores ApiResponse data or error").
OnClientRaise_StoresPayload(obj, msg) ==
    [obj EXCEPT !.status = "failed", !.error_message = Some(msg),
                !.response_data = Some(Raised(msg))]

\* except-branch of a handler: `except Exception as e`.
OnClientRaise(obj, msg) ==
    [obj EXCEPT !.status = "failed", !.error_message = Some(msg)]

\* The name `e` after the try statement: Python unbinds the target of
\* `except ... as e` when the except block is left, and it was never bound
\* when the try block ran to its end.
ExceptTargetAfterTry(outcome) == None

\* The handler's last line:
\*   ApiResponse(data=result) if api_request.status == 'success'
\*   else ApiResponse(error=str(e))
BuildResponse(obj, result, e) ==
    IF obj.status = "success"
    THEN [kind |-> "envelope", data |-> result, error |-> None]
    ELSE IF e = None
         THEN [kind |-> "exception", data |-> None,
               error |-> Some("UnboundLocalError")]
         ELSE [kind |-> "envelope", data |-> None, error |-> e]

\* api_request = ApiRequest.objects.create(endpoint=ep)
CreateApiRequest(r, ep) ==
    /\ req[r].pc = "idle"
    /\ \A q \in Slots : q < r => req[q].pc # "idle"
    /\ \E body \in Bodies(ep) :
         req' = [req EXCEPT ![r] =
                   [IdleReq EXCEPT !.pc = "input", !.endpoint = ep,
                                   !.body = body, !.pk = Len(audit) + 1,
                                   !.api_request = NewApiRequest(ep)]]
    /\ audit' = Append(audit, NewApiRequest(ep))
    /\ UNCHANGED inputs

\* <Endpoint>Input.objects.create(api_request=api_request, ...): outside the
\* try statement, so an error of the datastore leaves the handler.
CreateInput(r, ep) ==
    /\ req[r].pc = "input"
    /\ req[r].endpoint = ep
    /\ IF InputCreateOk(ep, req[r].body)
       THEN /\ inputs' = inputs \cup { [api_request |-> req[r].pk,
                                        endpoint |-> ep, body |-> req[r].body] }
            /\ req' = [req EXCEPT ![r].pc = "call"]
       ELSE /\ inputs' = inputs
            /\ req' = [req EXCEPT ![r].pc = "done",
                         ![r].response = [kind |-> "exception", data |-> None,
                                          error |-> Some("IntegrityError")]]
    /\ UNCHANGED audit

\* A handler that calls its client without waiting for the input record.
InvokeClient_BeforeInput(r, ep) ==
    /\ req[r].pc \in { "input", "call" }
    /\ req[r].endpoint = ep
    /\ \E o \in ClientOutcomes(ep) :
         req' = [req EXCEPT
                   ![r].pc = "save",
                   ![r].client = Some(o),
                   ![r].result = IF o.kind = "return" THEN Some(o) ELSE None,
                   ![r].api_request =
                       IF o.kind = "return"
                       THEN OnClientReturn(req[r].api_request, o)
                       ELSE OnClientRaise(req[r].api_request, o.error[1]),
                   ![r].e = ExceptTargetAfterTry(o)]
    /\ UNCHANGED <<audit, inputs>>

\* The try statement: the client call and the assignments to api_request.
InvokeClient(r, ep) ==
    /\ req[r].pc = "call"
    /\ req[r].endpoint = ep
    /\ \E o \in ClientOutcomes(ep) :
         req' = [req EXCEPT
                   ![r].pc = "save",
                   ![r].client = Some(o),
                   ![r].result = IF o.kind = "return" THEN Some(o) ELSE None,
                   ![r].api_request =
                       IF o.kind = "return"
                       THEN OnClientReturn(req[r].api_request, o)
                       ELSE OnClientRaise(req[r].api_request, o.error[1]),
                   ![r].e = ExceptTargetAfterTry(o)]
    /\ UNCHANGED <<audit, inputs>>

\* A save that writes the newest row of the table in place of the handler's
\* own row.
SaveApiRequest_NewestRow(r, ep) ==
    /\ req[r].pc = "save"
    /\ req[r].endpoint = ep
    /\ audit' = [audit EXCEPT ![Len(audit)] = req[r].api_request]
    /\ req' = [req EXCEPT ![r].pc = "return"]
    /\ UNCHANGED inputs

\* api_request.save()
SaveApiRequest(r, ep) ==
    /\ req[r].pc = "save"
    /\ req[r].endpoint = ep
    /\ audit' = [audit EXCEPT ![req[r].pk] = req[r].api_request]
    /\ req' = [req EXCEPT ![r].pc = "return"]
    /\ UNCHANGED inputs

\* return ApiResponse(...)
ReturnResponse(r, ep) ==
    /\ req[r].pc = "return"
    /\ req[r].endpoint = ep
    /\ req' = [req EXCEPT
                 ![r].pc = "done",
                 ![r].response =
                     BuildResponse(req[r].api_request, req[r].result, req[r].e)]
    /\ UNCHANGED <<audit, inputs>>

\* One handler: its five steps in program order.
Handler(r, ep) ==
    /\ \/ CreateApiRequest(r, ep)
       \/ CreateInput(r, ep)
       \/ InvokeClient(r, ep)
       \/ SaveApiRequest(r, ep)
       \/ ReturnResponse(r, ep)
    /\ UNCHANGED <<tokens, tk, rt, pq, bt, pg, sh, op, kg>>

get_thematic_statistics(r) == Handler(r, "/thematic_statistics")
get_lulc_aoi_statistics(r) == Handler(r, "/lulc_aoi_statistics")
get_lulc_polygon_statistics(r) == Handler(r, "/lulc_polygon_statistics")
get_lulc_bounding_box_statistics(r) == Handler(r, "/lulc_bounding_box_statistics")
get_geoid_elevation(r) == Handler(r, "/geoid_elevation")
get_routing(r) == Handler(r, "/routing")
get_postal_hospital_proximity(r) == Handler(r, "/postal_hospital_proximity")
get_village_geocoding(r) == Handler(r, "/village_geocoding")
get_village_reverse_geocoding(r) == Handler(r, "/village_reverse_geocoding")

(***************************************************************************)
(* api/bhuvan_apis/config/bhuvan_tokens.py: BhuvanTokenManager             *)
(***************************************************************************)

Services ==
    { "lulc_statistics", "lulc_aoi_wise", "postal_hospital", "village_geocoding",
      "village_reverse_geocoding", "routing", "geoid" }

TokenKeys == Services \cup { "legacy" }

\* Python truth value of a str-or-None.
Truthy(v) == v # None /\ v[1] # ""

\* dict.get(key): None for a key the dict does not hold.
dict_get(d, k) == IF k \in DOMAIN d THEN d[k] ELSE None

\* A get_token that tests `token is None` in place of `not token`.
get_token_IsNoneTest(toks, service_type) ==
    LET token == dict_get(toks, service_type)
        token2 == IF token = None THEN dict_get(toks, "legacy") ELSE token
    IN  IF token2 = None
        THEN [kind |-> "raise", value |-> Some("No valid token available")]
        ELSE [kind |-> "return", value |-> token2]

\* BhuvanTokenManager.get_token
get_token(toks, service_type) ==
    LET token == dict_get(toks, service_type)
        token2 == IF ~Truthy(token) THEN dict_get(toks, "legacy") ELSE token
    IN  IF ~Truthy(token2)
        THEN [kind |-> "raise", value |-> Some("No valid token available")]
        ELSE [kind |-> "return", value |-> token2]

\* get_service_token: the module-level convenience function.
get_service_token(toks, service_type) == get_token(toks, service_type)

(***************************************************************************)
(* api/bhuvan_apis/geoid.py: GeoidAPI                                      *)
(***************************************************************************)

\* Python dict.update on dicts written as functions.
dict_update(d, u) ==
    [k \in (DOMAIN d) \cup (DOMAIN u) |-> IF k \in DOMAIN u THEN u[k] ELSE d[k]]

EmptyDict == [k \in {} |-> ""]

\* What the provider and the local filesystem do to one geoid request.
GeoidProviderOutcomes ==
    { "zip", "zip_write_fails", "json", "text", "request_exception" }

GeoidSimulatedSummary == { "data_type", "format", "datum_type", "source", "message" }
GeoidDownloadSummary == { "data_type", "format", "datum_type", "source" }
GeoidJsonSummary == { "success", "message", "data_available" }
GeoidTextSummary == { "success", "message", "response_type" }

\* GeoidAPI._create_simulated_response; `calls` is the number of outbound
\* calls made before it.
create_simulated_response(area_id, datum, calls) ==
    [kind |-> "return", shape |-> "simulated", simulated |-> TRUE,
     area_id |-> area_id, datum |-> datum, summary |-> GeoidSimulatedSummary,
     outbound |-> calls, artifacts |-> 1]

\* GeoidAPI.get_elevation_data on a client whose api_token is `api_token`.
get_elevation_data(api_token, area_id, datum, provider) ==
    IF ~Truthy(api_token)
    THEN create_simulated_response(area_id, datum, 0)
    ELSE CASE provider = "request_exception" ->
                  create_simulated_response(area_id, datum, 1)
           [] provider = "zip_write_fails" ->
                  \* _handle_file_download re-raises; the outer
                  \* `except Exception` answers with simulated data
                  create_simulated_response(area_id, datum, 1)
           [] provider = "zip" ->
                  [kind |-> "return", shape |-> "download", simulated |-> FALSE,
                   area_id |-> area_id, datum |-> datum,
                   summary |-> GeoidDownloadSummary, outbound |-> 1,
                   artifacts |-> 0]
           [] provider = "json" ->
                  [kind |-> "return", shape |-> "json", simulated |-> FALSE,
                   area_id |-> area_id, datum |-> datum,
                   summary |-> GeoidJsonSummary, outbound |-> 1, artifacts |-> 1]
           [] OTHER ->
                  [kind |-> "return", shape |-> "text", simulated |-> FALSE,
                   area_id |-> area_id, datum |-> datum,
                   summary |-> GeoidTextSummary, outbound |-> 1, artifacts |-> 0]

\* GeoidAPI() followed by get_elevation_data: __init__ asks the token
\* manager for the 'geoid' token and lets its ValueError through.
GeoidClientCall(toks, area_id, datum, provider) ==
    LET t == get_service_token(toks, "geoid")
    IN  IF t.kind = "raise"
        THEN [kind |-> "raise", shape |-> "ValueError", simulated |-> FALSE,
              area_id |-> area_id, datum |-> datum, summary |-> {},
              outbound |-> 0, artifacts |-> 0]
        ELSE get_elevation_data(t.value, area_id, datum, provider)

\* essential_services of validate_tokens, in the order of the loop.
essential_services == <<"lulc_statistics", "geoid", "routing">>

\* validation_result as validate_tokens starts with it.
ValidationResult0 ==
    [valid |-> TRUE, missing_essential |-> <<>>, available_services |-> <<>>,
     total_tokens |-> 0, raised |-> None]

\* `for service in essential_services:`; an exception of get_token leaves the
\* loop and validate_tokens.
RECURSIVE validate_loop(_, _, _)
validate_loop(toks, services, validation_result) ==
    IF services = <<>> \/ validation_result.raised # None THEN validation_result
    ELSE LET service == Head(services)
             token == get_token(toks, service)
         IN  validate_loop(toks, Tail(services),
                 IF token.kind = "raise"
                 THEN [validation_result EXCEPT !.raised = token.value]
                 ELSE IF Truthy(token.value)
                 THEN [validation_result EXCEPT
                         !.available_services = Append(@, service)]
                 ELSE [validation_result EXCEPT
                         !.missing_essential = Append(@, service),
                         !.valid = FALSE])

\* BhuvanTokenManager.validate_tokens
validate_tokens(toks) ==
    LET validation_result == validate_loop(toks, essential_services, ValidationResult0)
    IN  IF validation_result.raised # None
        THEN [kind |-> "raise", value |-> validation_result.raised]
        ELSE [kind |-> "return",
              value |-> [validation_result EXCEPT
                           !.total_tokens =
                               Cardinality({ k \in DOMAIN toks : Truthy(toks[k]) })]]

TkIdle == [op |-> "none", service |-> "", res |-> [kind |-> "none"]]

\* token_manager.get_token(service_type)
GetToken ==
    /\ \E s \in TokenKeys \cup { "unknown" } :
         tk' = [op |-> "get_token", service |-> s, res |-> get_token(tokens, s)]
    /\ UNCHANGED <<audit, inputs, req, tokens, rt, pq, bt, pg, sh, op, kg>>

\* GeoidAPI().get_elevation_data(area_id, datum)
GeoidElevation ==
    /\ \E datum \in { "geoid", "ellipsoid" }, provider \in GeoidProviderOutcomes :
         tk' = [op |-> "geoid", service |-> "geoid",
                res |-> GeoidClientCall(tokens, "AOI1", datum, provider)]
    /\ UNCHANGED <<audit, inputs, req, tokens, rt, pq, bt, pg, sh, op, kg>>

\* token_manager.validate_tokens()
ValidateTokens ==
    /\ tk' = [op |-> "validate_tokens", service |-> "", res |-> validate_tokens(tokens)]
    /\ UNCHANGED <<audit, inputs, req, tokens, rt, pq, bt, pg, sh, op, kg>>

\* The environment is read once, when bhuvan_tokens is imported:
\* BhuvanTokenManager.__init__ fills self.tokens from os.getenv, which gives
\* None for an unset variable, "" for one set to nothing, or the token
\* (written as the key's own name, so that no two keys share a token).
EnvChoice(k, c) == IF c = 0 THEN None ELSE IF c = 1 THEN Some("") ELSE Some(k)

TokensInit ==
    /\ tokens \in { [k \in TokenKeys |-> EnvChoice(k, c[k])] :
                      c \in [TokenKeys -> 0..2] }
    /\ tk = TkIdle

(***************************************************************************)
(* api/bhuvan_apis/routing.py: RoutingAPI                                  *)
(*                                                                         *)
(* Coordinates are whole numbers of half degrees (<<lat, lng>> = <<26,155>>*)
(* is 13.0 N 77.5 E): every bound of the regional boxes is a multiple of   *)
(* 0.5.  The float arithmetic of _haversine_distance is carried out in     *)
(* fixed point with six decimals, each operation as the code performs it;  *)
(* over the modelled range (latitude 0..40, longitude 60..100) the result  *)
(* is within 3.5 km of the float result.  Distances are in metres.         *)
(***************************************************************************)

FixOne == 1000 * 1000

\* a * b on six-decimal fixed-point numbers a, b >= 0, without leaving
\* 32-bit integers.
FixMul(a, b) ==
    LET ah == a \div 1000
        al == a % 1000
        bh == b \div 1000
        bl == b % 1000
    IN  ah * bh + (ah * bl + al * bh) \div 1000 + (al * bl) \div FixOne

Abs(x) == IF x < 0 THEN -x ELSE x

\* math.radians of h half degrees: h * pi / 360.
radians(h) == (h * 872665) \div 100

\* math.sin on [0, pi/2]
sin(x) ==
    LET x2 == FixMul(x, x)
        x3 == FixMul(x2, x)
        x5 == FixMul(x3, x2)
        x7 == FixMul(x5, x2)
        x9 == FixMul(x7, x2)
    IN  x - x3 \div 6 + x5 \div 120 - x7 \div 5040 + x9 \div 362880

\* math.cos on [0, pi/2]
cos(x) ==
    LET x2 == FixMul(x, x)
        x4 == FixMul(x2, x2)
        x6 == FixMul(x4, x2)
        x8 == FixMul(x6, x2)
        x10 == FixMul(x8, x2)
    IN  FixOne - x2 \div 2 + x4 \div 24 - x6 \div 720 + x8 \div 40320
        - x10 \div 3628800

RECURSIVE IsqrtBetween(_, _, _)
\* The largest m in lo..hi-1 with m * m <= n.
IsqrtBetween(n, lo, hi) ==
    IF hi - lo <= 1 THEN lo
    ELSE LET m == (lo + hi) \div 2
         IN  IF m * m <= n THEN IsqrtBetween(n, m, hi)
             ELSE IsqrtBetween(n, lo, m)

\* math.sqrt on [0, 1]
sqrt(a) == IsqrtBetween(a * 1600, 0, 46341) * 25

\* math.asin on [0, 0.5]
asin(y) ==
    LET y2 == FixMul(y, y)
        y3 == FixMul(y2, y)
        y5 == FixMul(y3, y2)
        y7 == FixMul(y5, y2)
        y9 == FixMul(y7, y2)
    IN  y + y3 \div 6 + (3 * y5) \div 40 + (15 * y7) \div 336
        + (35 * y9) \div 1152

\* RoutingAPI._haversine_distance, r = 6371 km; the result in metres.
\* sin(x)**2 and cos are even, so the absolute values of the angles are used.
haversine_distance(lat1, lng1, lat2, lng2) ==
    LET dlat == Abs(radians(lat2) - radians(lat1))
        dlng == Abs(radians(lng2) - radians(lng1))
        sa == sin(dlat \div 2)
        sb == sin(dlng \div 2)
        a == FixMul(sa, sa)
             + FixMul(FixMul(cos(Abs(radians(lat1))), cos(Abs(radians(lat2)))),
                      FixMul(sb, sb))
        c == 2 * asin(sqrt(a))
    IN  ((c \div 10) * 6371) \div 100

\* One regional box of _are_coordinates_in_same_region, in half degrees.
InBox(lat, lng, lat_lo, lat_hi, lng_lo, lng_hi) ==
    lat_lo <= lat /\ lat <= lat_hi /\ lng_lo <= lng /\ lng <= lng_hi

\* Both points inside one of the four boxes: Karnataka, Andhra Pradesh +
\* Telangana, Tamil Nadu, Kerala.
InCommonBox(lat1, lng1, lat2, lng2) ==
    \/ InBox(lat1, lng1, 23, 37, 148, 157) /\ InBox(lat2, lng2, 23, 37, 148, 157)
    \/ InBox(lat1, lng1, 25, 39, 154, 170) /\ InBox(lat2, lng2, 25, 39, 154, 170)
    \/ InBox(lat1, lng1, 16, 27, 153, 161) /\ InBox(lat2, lng2, 16, 27, 153, 161)
    \/ InBox(lat1, lng1, 16, 25, 149, 155) /\ InBox(lat2, lng2, 16, 25, 149, 155)

\* A pre-flight check that looks at the boxes before the 1000 km limit.
are_coordinates_in_same_region_BoxesFirst(coord1, coord2) ==
    LET distance == haversine_distance(coord1[1], coord1[2], coord2[1], coord2[2])
    IN  IF InCommonBox(coord1[1], coord1[2], coord2[1], coord2[2]) THEN TRUE
        ELSE IF distance > 1000 * 1000 THEN FALSE
        ELSE distance < 500 * 1000

\* A pre-flight check that knows no regional boxes: the 500 km limit alone.
are_coordinates_in_same_region_DistanceOnly(coord1, coord2) ==
    LET distance == haversine_distance(coord1[1], coord1[2], coord2[1], coord2[2])
    IN  IF distance > 1000 * 1000 THEN FALSE
        ELSE distance < 500 * 1000

\* RoutingAPI._are_coordinates_in_same_region
are_coordinates_in_same_region(coord1, coord2) ==
    LET distance == haversine_distance(coord1[1], coord1[2], coord2[1], coord2[2])
    IN  IF distance > 1000 * 1000 THEN FALSE
        ELSE IF InCommonBox(coord1[1], coord1[2], coord2[1], coord2[2]) THEN TRUE
        ELSE distance < 500 * 1000

\* RoutingAPI._create_error_response
create_error_response(error_message, sent) ==
    [error |-> Some(error_message), route_data |-> None,
     summary |-> [distance_km |-> 0, estimated_duration_minutes |-> 0,
                  route_found |-> FALSE, total_segments |-> 0,
                  start_point |-> None, end_point |-> None,
                  error |-> Some(error_message)],
     outbound |-> sent, artifacts |-> 0]

\* The query of get_route: the fixed parameters, then params.update(parameters).
routing_fixed_params(start, end, api_token) ==
    [lat1 |-> start[1], lon1 |-> start[2], lat2 |-> end[1], lon2 |-> end[2],
     token |-> api_token]

routing_params(start, end, api_token, parameters) ==
    dict_update(routing_fixed_params(start, end, api_token), parameters)

\* What the provider does to one routing request.
RoutingProviderOutcomes ==
    { "request_exception", "http_error", "text", "json_decode_error", "geojson" }

\* get_route up to the outbound call (lines 41-64): the error response it
\* returns at once, or None when the request goes out.
get_route_preflight(api_token, start, end) ==
    IF ~Truthy(api_token)
    THEN Some(create_error_response("Routing API token not configured", <<>>))
    ELSE IF ~are_coordinates_in_same_region(start, end)
    THEN Some(create_error_response("Coordinates appear to be in different states",
                                    <<>>))
    ELSE None

\* Distances and durations of a routing summary are kept in 1/2000 of a
\* kilometre and of a minute, so that `/ 1000` and `* (60 / 40)` stay exact.
RouteUnit == 2000

\* float(x): the number itself; the strings of the modelled responses are
\* not numerals (ValueError); a list, dict or null is a TypeError.
float(x) ==
    CASE x.t = "num" -> [kind |-> "return", value |-> x.n]
      [] x.t = "str" -> ShRaise("ValueError")
      [] OTHER -> ShRaise("TypeError")

\* {'lng': coord[0], 'lat': coord[1]}
point(coord) == Some([lng |-> coord.items[1], lat |-> coord.items[2]])

\* A coordinate member that passes `isinstance(c, list) and len(c) >= 2`.
is_pair(c) == c.t = "list" /\ Len(c.items) >= 2

RouteEnds(first_coord, last_coord) ==
    [first_coord |-> first_coord, last_coord |-> last_coord, raised |-> None]

\* first_coord and last_coord of a LineString geometry (lines 186-190).
line_ends(coords) ==
    LET first == coords.items[1]
        last == coords.items[Len(coords.items)]
    IN  IF is_pair(first)
        THEN RouteEnds(point(first), IF is_pair(last) THEN point(last) ELSE None)
        ELSE RouteEnds(None, None)

\* first_coord and last_coord of a MultiLineString geometry (lines 181-185);
\* the members of the modelled coordinate arrays are lists, numbers or null,
\* and len() of a number or of null is a TypeError.
multi_ends(coords) ==
    LET c0 == coords.items[1]
        cl == coords.items[Len(coords.items)]
        Fail == [first_coord |-> None, last_coord |-> None,
                 raised |-> Some("TypeError")]
    IN  IF c0.t # "list" THEN Fail
        ELSE IF c0.items = <<>> THEN RouteEnds(None, None)
        ELSE IF c0.items[1].t # "list" THEN Fail
        ELSE IF cl.t # "list" THEN Fail
        ELSE IF cl.items # <<>> /\ cl.items[Len(cl.items)].t # "list" THEN Fail
        ELSE RouteEnds(IF Len(c0.items[1].items) >= 2 THEN point(c0.items[1])
                       ELSE None,
                       IF cl.items # <<>> /\ Len(cl.items[Len(cl.items)].items) >= 2
                       THEN point(cl.items[Len(cl.items)])
                       ELSE None)

\* The accumulators of the loop over raw_data['features'].
RouteAcc0 ==
    [total_distance |-> 0, segments |-> 0, start_point |-> None,
     end_point |-> None, raised |-> None]

\* `if 'properties' in feature:` with its body (lines 163-168); the test
\* itself has been passed.
route_properties(acc, feature) ==
    IF feature.t # "dict" THEN [acc EXCEPT !.raised = Some("TypeError")]
    ELSE LET props == feature.fields["properties"]
         IN  IF props.t # "dict"
             THEN [acc EXCEPT !.raised = Some("AttributeError")]
             ELSE LET distance == or(get(props, "distance", JNum(0)),
                                     get(props, "length", JNum(0)))
                  IN  IF ~truthy(distance) THEN acc
                      ELSE IF float(distance).kind = "raise"
                      THEN [acc EXCEPT !.raised = Some(float(distance).exception)]
                      ELSE [acc EXCEPT !.total_distance = @ + float(distance).value]

\* `if 'geometry' in feature and 'coordinates' in feature['geometry']:` with
\* its body (lines 171-202).
route_geometry(acc, feature) ==
    IF ~contains(feature, "geometry")[1] THEN acc
    ELSE IF feature.t # "dict" THEN [acc EXCEPT !.raised = Some("TypeError")]
    ELSE LET geometry == feature.fields["geometry"]
             has == contains(geometry, "coordinates")
         IN  IF has = None THEN [acc EXCEPT !.raised = Some("TypeError")]
             ELSE IF ~has[1] THEN acc
             ELSE IF geometry.t # "dict"
             THEN [acc EXCEPT !.raised = Some("TypeError")]
             ELSE LET coords == geometry.fields["coordinates"]
                  IN  IF ~(truthy(coords) /\ coords.t = "list") THEN acc
                      ELSE IF "type" \notin DOMAIN geometry.fields
                      THEN [acc EXCEPT !.raised = Some("KeyError")]
                      ELSE LET type == geometry.fields["type"]
                               ends == IF type.t = "str" /\ type.s = "MultiLineString"
                                       THEN multi_ends(coords)
                                       ELSE line_ends(coords)
                           IN  IF ends.raised # None
                               THEN [acc EXCEPT !.raised = ends.raised]
                               ELSE [acc EXCEPT
                                       !.start_point =
                                           IF ends.first_coord # None /\ @ = None
                                           THEN ends.first_coord ELSE @,
                                       !.end_point =
                                           IF ends.last_coord # None
                                           THEN ends.last_coord ELSE @]

\* One turn of `for feature in raw_data['features']` (lines 160-202).
route_feature(acc, feature) ==
    LET counted == [acc EXCEPT !.segments = @ + 1]
        has == contains(feature, "properties")
    IN  IF has = None THEN [counted EXCEPT !.raised = Some("TypeError")]
        ELSE LET measured == IF has[1] THEN route_properties(counted, feature)
                             ELSE counted
             IN  IF measured.raised # None THEN measured
                 ELSE route_geometry(measured, feature)

\* The loop, stopped by the first exception.
RECURSIVE route_loop(_, _)
route_loop(acc, items) ==
    IF items = <<>> \/ acc.raised # None THEN acc
    ELSE route_loop(route_feature(acc, Head(items)), Tail(items))

\* total_distance / 1000 if total_distance > 1000 else total_distance
distance_km(total_distance) ==
    IF total_distance > 1000 THEN total_distance * (RouteUnit \div 1000)
    ELSE total_distance * RouteUnit

\* (total_distance / 1000) * (60 / 40) when total_distance > 0, else the 0
\* the summary starts with.
estimated_duration_minutes(total_distance) ==
    IF total_distance > 0 THEN total_distance * ((RouteUnit * 60) \div (1000 * 40))
    ELSE 0

\* RoutingAPI._calculate_line_distance, in metres: the legs between
\* consecutive [lng, lat] vertices; a vertex that is no list is a TypeError,
\* a vertex of fewer than two members an IndexError.
RECURSIVE calculate_line_distance(_)
calculate_line_distance(coordinates) ==
    IF Len(coordinates) < 2 THEN [kind |-> "return", value |-> 0]
    ELSE LET p == coordinates[1]
             q == coordinates[2]
             rest == calculate_line_distance(Tail(coordinates))
         IN  IF p.t # "list" \/ q.t # "list" THEN ShRaise("TypeError")
             ELSE IF Len(p.items) < 2 \/ Len(q.items) < 2 THEN ShRaise("IndexError")
             ELSE IF rest.kind = "raise" THEN rest
             ELSE [kind |-> "return",
                   value |-> haversine_distance(p.items[2].n, p.items[1].n,
                                                q.items[2].n, q.items[1].n)
                             + rest.value]

\* The summary _format_response starts with.
RouteSummary0 ==
    [distance_km |-> 0, estimated_duration_minutes |-> 0, route_found |-> FALSE,
     total_segments |-> 0, start_point |-> None, end_point |-> None,
     error |-> None]

\* The branch of _format_response for a direct LineString (lines 213-230).
route_line_string(raw_data) ==
    LET coords == get(raw_data, "coordinates", JList(<<>>))
        found == [RouteSummary0 EXCEPT !.route_found = TRUE]
    IN  IF ~truthy(coords) THEN [kind |-> "return", summary |-> found]
        ELSE IF coords.t # "list" THEN ShRaise("TypeError")
        ELSE LET first == coords.items[1]
                 last == coords.items[Len(coords.items)]
                 distance == calculate_line_distance(coords.items)
                 member(c, k) == IF Len(c.items) >= k THEN Some(c.items[k]) ELSE None
             IN  IF first.t # "list" \/ last.t # "list" THEN ShRaise("TypeError")
                 ELSE IF distance.kind = "raise" THEN distance
                 ELSE [kind |-> "return",
                       summary |->
                         [found EXCEPT
                            !.start_point = Some([lng |-> member(first, 1),
                                                  lat |-> member(first, 2)]),
                            !.end_point = Some([lng |-> member(last, 1),
                                                lat |-> member(last, 2)]),
                            !.distance_km = distance.value * (RouteUnit \div 1000),
                            !.estimated_duration_minutes =
                                distance.value * ((RouteUnit * 60) \div (1000 * 40))]]

\* RoutingAPI._format_response: the summary, or the exception that leaves it.
\* `raw_data['features']` of the modelled responses is a list, a number or
\* null; a number is not iterable.
routing_format_response(raw_data) ==
    IF raw_data.t # "dict" THEN [kind |-> "return", summary |-> RouteSummary0]
    ELSE IF "features" \in DOMAIN raw_data.fields /\ truthy(raw_data.fields["features"])
    THEN IF raw_data.fields["features"].t # "list" THEN ShRaise("TypeError")
         ELSE LET acc == route_loop(RouteAcc0, raw_data.fields["features"].items)
              IN  IF acc.raised # None THEN ShRaise(acc.raised[1])
                  ELSE [kind |-> "return",
                        summary |->
                          [RouteSummary0 EXCEPT
                             !.route_found = TRUE,
                             !.start_point = acc.start_point,
                             !.end_point = acc.end_point,
                             !.distance_km = distance_km(acc.total_distance),
                             !.total_segments = acc.segments,
                             !.estimated_duration_minutes =
                                 estimated_duration_minutes(acc.total_distance)]]
    ELSE IF /\ "type" \in DOMAIN raw_data.fields
            /\ raw_data.fields["type"].t = "str"
            /\ raw_data.fields["type"].s = "LineString"
    THEN route_line_string(raw_data)
    ELSE [kind |-> "return", summary |-> RouteSummary0]

\* A get_route without the last `except Exception` clause: an exception of
\* _format_response leaves it.
get_route_exchange_NoCatchAll(params, provider, raw_data) ==
    CASE provider \in { "request_exception", "http_error" } ->
             create_error_response("API request failed", <<params>>)
      [] provider = "text" ->
             create_error_response("API error", <<params>>)
      [] provider = "json_decode_error" ->
             create_error_response("Failed to parse JSON response", <<params>>)
      [] OTHER ->
             LET formatted_response == routing_format_response(raw_data)
             IN  IF formatted_response.kind = "raise"
                 THEN formatted_response
                 ELSE [error |-> None, route_data |-> Some(raw_data),
                       summary |-> formatted_response.summary,
                       outbound |-> <<params>>, artifacts |-> 1]

\* get_route from the outbound call on (lines 66-112), the query `params`
\* having been sent; `raw_data` is what response.json() returned when the
\* provider answered with JSON.  _save_response traps its own exceptions.
get_route_exchange(params, provider, raw_data) ==
    CASE provider \in { "request_exception", "http_error" } ->
             create_error_response("API request failed", <<params>>)
      [] provider = "text" ->
             create_error_response("API error", <<params>>)
      [] provider = "json_decode_error" ->
             create_error_response("Failed to parse JSON response", <<params>>)
      [] OTHER ->
             LET formatted_response == routing_format_response(raw_data)
             IN  IF formatted_response.kind = "raise"
                 THEN create_error_response("Unexpected error", <<params>>)
                 ELSE [error |-> None, route_data |-> Some(raw_data),
                       summary |-> formatted_response.summary,
                       outbound |-> <<params>>, artifacts |-> 1]

\* Start and end points a caller sends, in half degrees: Bengaluru, the two
\* far corners of the Andhra Pradesh box, Delhi, Mumbai, Kochi, Pune.
RoutePoints ==
    { <<26, 155>>, <<25, 154>>, <<39, 170>>, <<57, 154>>, <<38, 146>>,
      <<20, 153>>, <<37, 148>> }

\* Optional `parameters` a caller of get_route passes.
RoutingCallerParameters ==
    { EmptyDict, [format |-> Some("geojson")], [token |-> Some("caller-token")],
      [lat1 |-> 0] }

\* Most features in a modelled feature collection, and most vertices in a
\* modelled direct line string.
MaxSegments == 2

\* A [lng, lat] vertex, in half degrees like the route points.
Vertex(lng, lat) == JList(<<JNum(lng), JNum(lat)>>)

\* Bengaluru, Pune, Kochi.
LineVertices == { Vertex(155, 26), Vertex(148, 37), Vertex(153, 20) }

LineGeometry ==
    JDict([type |-> JStr("LineString"),
           coordinates |-> JList(<<Vertex(155, 26), Vertex(148, 37)>>)])

MultiLineGeometry ==
    JDict([type |-> JStr("MultiLineString"),
           coordinates |-> JList(<<JList(<<Vertex(155, 26), Vertex(153, 20)>>),
                                   JList(<<Vertex(153, 20), Vertex(148, 37)>>)>>)])

\* Features of a routing answer: with a distance or a length short of and
\* beyond 1000, with and without a geometry.
RouteFeatures ==
    { JDict([properties |-> JDict([distance |-> JNum(400)])]),
      JDict([properties |-> JDict([distance |-> JNum(1500)]),
             geometry |-> LineGeometry]),
      JDict([properties |-> JDict([length |-> JNum(700)])]),
      JDict([properties |-> JDict([name |-> JStr("NH 48")]),
             geometry |-> LineGeometry]),
      JDict([geometry |-> LineGeometry]),
      JDict([geometry |-> MultiLineGeometry]) }

\* Features of an unexpected shape.
OddRouteFeatures ==
    { JNum(1),
      JDict([properties |-> JNull]),
      JDict([properties |-> JDict([distance |-> JStr("n/a")])]),
      JDict([geometry |-> JNull]),
      JDict([geometry |-> JDict([coordinates |-> JList(<<Vertex(155, 26)>>)])]),
      JDict([geometry |->
               JDict([type |-> JStr("MultiLineString"),
                      coordinates |-> JList(<<Vertex(155, 26), Vertex(148, 37)>>)])]) }

\* What response.json() returns: feature collections, direct line strings,
\* and values of neither shape.
RouteRawData ==
    { JDict([type |-> JStr("FeatureCollection"), features |-> JList(fs)]) :
        fs \in SeqsUpTo(RouteFeatures, MaxSegments) }
    \cup { JDict([features |-> JList(<<o>>)]) : o \in OddRouteFeatures }
    \cup { JDict([features |-> JList(<<f, o>>)]) :
             f \in RouteFeatures, o \in OddRouteFeatures }
    \cup { JDict([type |-> JStr("LineString"), coordinates |-> JList(line)]) :
             line \in SeqsUpTo(LineVertices, MaxSegments) }
    \cup { JDict([type |-> JStr("LineString")]),
           JDict([type |-> JStr("LineString"), coordinates |-> JList(<<JNum(1)>>)]),
           JDict([type |-> JStr("LineString"),
                  coordinates |-> JList(<<Vertex(155, 26), JList(<<JNum(148)>>)>>)]),
           JDict([features |-> JNull]),
           JDict([features |-> JNum(1)]),
           JDict([error |-> JStr("No route found")]),
           JList(<<>>) }

RtIdle == [phase |-> "idle"]

\* routing_api.get_route(start, end, parameters) is entered; routing_api was
\* built by RoutingAPI(), whose __init__ needs get_service_token('routing')
\* to return.
RoutingEnter ==
    /\ rt.phase = "idle"
    /\ get_service_token(tokens, "routing").kind = "return"
    /\ \E start \in RoutePoints, end \in RoutePoints,
          parameters \in RoutingCallerParameters :
         rt' = [phase |-> "entered", start |-> start, end |-> end,
                parameters |-> parameters,
                api_token |-> get_service_token(tokens, "routing").value]
    /\ UNCHANGED <<audit, inputs, req, tokens, tk, pq, bt, pg, sh, op, kg>>

\* The token and same-region checks; the query is built and sent when both
\* pass.
RoutingPreflight ==
    /\ rt.phase = "entered"
    /\ LET early == get_route_preflight(rt.api_token, rt.start, rt.end)
       IN  rt' = IF early # None
                 THEN [phase |-> "done", start |-> rt.start, end |-> rt.end,
                       parameters |-> rt.parameters, api_token |-> rt.api_token,
                       provider |-> "not called", res |-> early[1]]
                 ELSE [phase |-> "sent", start |-> rt.start, end |-> rt.end,
                       parameters |-> rt.parameters, api_token |-> rt.api_token,
                       params |-> routing_params(rt.start, rt.end, rt.api_token,
                                                 rt.parameters)]
    /\ UNCHANGED <<audit, inputs, req, tokens, tk, pq, bt, pg, sh, op, kg>>

\* requests.get returns or raises, and get_route shapes what came back.
RoutingExchange ==
    /\ rt.phase = "sent"
    /\ \E provider \in RoutingProviderOutcomes :
         \E raw_data \in (IF provider = "geojson" THEN RouteRawData ELSE { JNull }) :
            rt' = [phase |-> "done", start |-> rt.start, end |-> rt.end,
                   parameters |-> rt.parameters, api_token |-> rt.api_token,
                   provider |-> provider, raw_data |-> raw_data,
                   res |-> get_route_exchange(rt.params, provider, raw_data)]
    /\ UNCHANGED <<audit, inputs, req, tokens, tk, pq, bt, pg, sh, op, kg>>

(***************************************************************************)
(* The outbound query of each client: the fixed parameters, then           *)
(* params.update(parameters)                                               *)
(***************************************************************************)

\* GeoidAPI.get_elevation_data
geoid_fixed_params(area_id, datum, se, api_token) ==
    [id |-> Some(area_id), datum |-> Some(datum), se |-> Some(se),
     key |-> api_token]

geoid_params(area_id, datum, se, api_token, parameters) ==
    dict_update(geoid_fixed_params(area_id, datum, se, api_token), parameters)

\* LULCAOIWiseAPI.get_aoi_statistics
lulc_aoi_fixed_params(geometry_wkt, api_token) ==
    [geom |-> Some(geometry_wkt), token |-> api_token]

lulc_aoi_params(geometry_wkt, api_token, parameters) ==
    dict_update(lulc_aoi_fixed_params(geometry_wkt, api_token), parameters)

\* PostalHospitalAPI.get_proximity_data
postal_hospital_fixed_params(coordinates, theme, buffer, api_token) ==
    [lat |-> coordinates[1], lon |-> coordinates[2], buffer |-> buffer,
     theme |-> Some(theme), token |-> api_token]

postal_hospital_params(coordinates, theme, buffer, api_token, parameters) ==
    dict_update(postal_hospital_fixed_params(coordinates, theme, buffer, api_token),
                parameters)

\* VillageGeocodingAPI.get_village_data
village_geocoding_fixed_params(village_name, api_token) ==
    [village |-> Some(village_name), token |-> api_token]

village_geocoding_params(village_name, api_token, parameters) ==
    dict_update(village_geocoding_fixed_params(village_name, api_token), parameters)

\* VillageReverseGeocodingAPI.get_village_at_location
village_reverse_fixed_params(coordinates, api_token) ==
    [lat |-> coordinates[1], lon |-> coordinates[2], token |-> api_token]

village_reverse_params(coordinates, api_token, parameters) ==
    dict_update(village_reverse_fixed_params(coordinates, api_token), parameters)

\* ThematicStatisticsAPI.get_statistics: no `parameters` argument; the year
\* of `details` replaces the default year when details has the key.
thematic_fixed_params(distcode, api_token) ==
    [distcode |-> Some(distcode), year |-> Some("1112"), token |-> api_token]

thematic_params(details, api_token) ==
    LET params == thematic_fixed_params(details.distcode[1], api_token)
    IN  IF "year" \in DOMAIN details
        THEN [params EXCEPT !["year"] = details["year"]]
        ELSE params

\* The credential and the primary subject among a client's fixed parameters.
ProtectedKeys(client) ==
    CASE client = "routing" -> { "lat1", "lon1", "lat2", "lon2", "token" }
      [] client = "geoid" -> { "id", "key" }
      [] client = "lulc_aoi_wise" -> { "geom", "token" }
      [] client = "postal_hospital" -> { "lat", "lon", "token" }
      [] client = "village_geocoding" -> { "village", "token" }
      [] client = "village_reverse_geocoding" -> { "lat", "lon", "token" }
      [] OTHER -> { "distcode", "token" }

CallerParameters(client) ==
    CASE client = "routing" -> RoutingCallerParameters
      [] client = "geoid" ->
             { EmptyDict, [format |-> Some("tiff")], [key |-> Some("caller-token")],
               [id |-> Some("OTHER")] }
      [] client = "lulc_aoi_wise" ->
             { EmptyDict, [year |-> Some("1112")], [token |-> Some("caller-token")],
               [geom |-> Some("POLYGON((9 9,8 9,8 8,9 9))")] }
      [] client = "village_geocoding" ->
             { EmptyDict, [state |-> Some("KA")], [token |-> Some("caller-token")],
               [village |-> Some("Other")] }
      [] OTHER ->
             { EmptyDict, [state |-> Some("KA")], [token |-> Some("caller-token")],
               [lat |-> 0] }

\* The token a client holds: its __init__ got it from get_service_token.
ClientToken(service) == get_service_token(tokens, service).value

PqIdle == [client |-> "none"]

Sent(client, fixed, parameters, params) ==
    /\ pq' = [client |-> client, fixed |-> fixed, parameters |-> parameters,
              params |-> params]
    /\ UNCHANGED <<audit, inputs, req, tokens, tk, rt, bt, pg, sh, op, kg>>

RoutingQuery ==
    \E start \in { <<26, 155>>, <<20, 153>> }, end \in { <<26, 155>>, <<37, 148>> },
       parameters \in CallerParameters("routing") :
        Sent("routing", routing_fixed_params(start, end, ClientToken("routing")),
             parameters,
             routing_params(start, end, ClientToken("routing"), parameters))

GeoidQuery ==
    \E area_id \in { "AOI1", "AOI2" }, datum \in { "geoid", "ellipsoid" },
       parameters \in CallerParameters("geoid") :
        Sent("geoid", geoid_fixed_params(area_id, datum, "CDEM", ClientToken("geoid")),
             parameters,
             geoid_params(area_id, datum, "CDEM", ClientToken("geoid"), parameters))

LulcAoiQuery ==
    \E geometry_wkt \in { "POLYGON((0 0,1 0,1 1,0 0))", "POLYGON((0 0,2 0,2 2,0 0))" },
       parameters \in CallerParameters("lulc_aoi_wise") :
        Sent("lulc_aoi_wise",
             lulc_aoi_fixed_params(geometry_wkt, ClientToken("lulc_aoi_wise")),
             parameters,
             lulc_aoi_params(geometry_wkt, ClientToken("lulc_aoi_wise"), parameters))

PostalHospitalQuery ==
    \E coordinates \in { <<26, 155>>, <<20, 153>> },
       theme \in { "all", "hospital", "postal" }, buffer \in { 3000, 500 },
       parameters \in CallerParameters("postal_hospital") :
        Sent("postal_hospital",
             postal_hospital_fixed_params(coordinates, theme, buffer,
                                          ClientToken("postal_hospital")),
             parameters,
             postal_hospital_params(coordinates, theme, buffer,
                                    ClientToken("postal_hospital"), parameters))

VillageGeocodingQuery ==
    \E village_name \in { "Hampi", "Badami" },
       parameters \in CallerParameters("village_geocoding") :
        Sent("village_geocoding",
             village_geocoding_fixed_params(village_name,
                                            ClientToken("village_geocoding")),
             parameters,
             village_geocoding_params(village_name, ClientToken("village_geocoding"),
                                      parameters))

VillageReverseQuery ==
    \E coordinates \in { <<26, 155>>, <<20, 153>> },
       parameters \in CallerParameters("village_reverse_geocoding") :
        Sent("village_reverse_geocoding",
             village_reverse_fixed_params(coordinates,
                                          ClientToken("village_reverse_geocoding")),
             parameters,
             village_reverse_params(coordinates,
                                    ClientToken("village_reverse_geocoding"),
                                    parameters))

ThematicQuery ==
    \E details \in { [distcode |-> Some("3201")],
                     [distcode |-> Some("3201"), year |-> Some("0506")],
                     [distcode |-> Some("3201"), year |-> None] } :
        Sent("lulc_statistics",
             thematic_fixed_params("3201", ClientToken("lulc_statistics")),
             details, thematic_params(details, ClientToken("lulc_statistics")))

\* details.dict() of the Details schema (distcode: str, year: Optional[str] =
\* None): every field of the schema is a key, an omitted year with its
\* default None.
Details_dict(payload) ==
    [distcode |-> payload.distcode,
     year |-> IF "year" \in DOMAIN payload THEN payload.year ELSE None]

\* The `details` object of a /thematic_statistics request body.
ThematicPayloads ==
    { [distcode |-> Some("3201")],
      [distcode |-> Some("3201"), year |-> Some("0506")],
      [distcode |-> Some("3202"), year |-> Some("1112")],
      [distcode |-> Some("3202"), year |-> None] }

\* get_thematic_statistics of views.py up to the outbound query:
\* thematic_api.get_statistics(coordinates.dict(), details.dict()).
ThematicHandlerQuery ==
    /\ \E payload \in ThematicPayloads :
         LET details == Details_dict(payload)
         IN  pq' = [client |-> "lulc_statistics",
                    fixed |-> thematic_fixed_params(details.distcode[1],
                                                    ClientToken("lulc_statistics")),
                    parameters |-> details,
                    params |-> thematic_params(details, ClientToken("lulc_statistics")),
                    payload |-> payload]
    /\ UNCHANGED <<audit, inputs, req, tokens, tk, rt, bt, pg, sh, op, kg>>

\* Optional `parameters` a caller passes: nothing, an extra key, the
\* credential key, a subject key.
(***************************************************************************)
(* The batch lookups: VillageGeocodingAPI.search_villages and              *)
(* VillageReverseGeocodingAPI.get_villages_for_locations                   *)
(***************************************************************************)

\* Longest list given to a batch lookup.
MaxBatch == 3

VillageNames == { "Hampi", "Badami" }
Locations == { <<26, 155>>, <<20, 153>> }

\* location_key = f"{coordinates['lat']}_{coordinates['lng']}"
location_key(coordinates) == <<coordinates[1], "_", coordinates[2]>>

\* What one item's single lookup gives the loop: the formatted response of
\* get_village_data / get_village_at_location, or the record of the except
\* branch.
ItemSummary(item) == [kind |-> "summary", of |-> Some(item), error |-> None]
ItemError(msg) == [kind |-> "error", of |-> None, error |-> Some(msg)]

\* results[key] = value
dict_set(d, key, value) == dict_update(d, [k \in { key } |-> value])

BtIdle == [op |-> "none", phase |-> "idle"]

\* A loop body that stops the loop at the first item whose lookup raises.
batch_item_StopsAtFailure(b, key, outcome) ==
    IF outcome = "return"
    THEN [b EXCEPT !.results = dict_set(@, key, ItemSummary(b.items[b.i])),
                   !.attempted = Append(@, b.items[b.i]),
                   !.outcomes = Append(@, outcome),
                   !.i = @ + 1]
    ELSE [b EXCEPT !.results = dict_set(@, key, ItemError("API request failed")),
                   !.attempted = Append(@, b.items[b.i]),
                   !.outcomes = Append(@, outcome),
                   !.i = Len(b.items) + 1]

\* The loop body of both batch lookups: try the single lookup of the current
\* item, store its result under the item's key, or store the error record
\* of the except branch; then go on to the next item either way.
batch_item(b, key, outcome) ==
    [b EXCEPT !.results =
                  dict_set(@, key,
                           IF outcome = "return" THEN ItemSummary(b.items[b.i])
                           ELSE ItemError("API request failed")),
              !.attempted = Append(@, b.items[b.i]),
              !.outcomes = Append(@, outcome),
              !.i = @ + 1]

\* search_villages(village_names): results = {}
SearchVillagesEnter ==
    /\ bt.phase \in { "idle", "done" }
    /\ \E village_names \in SeqsUpTo(VillageNames, MaxBatch) :
         bt' = [op |-> "search_villages", phase |-> "loop", items |-> village_names,
                i |-> 1, results |-> <<>>, outcomes |-> <<>>, attempted |-> <<>>]
    /\ UNCHANGED <<audit, inputs, req, tokens, tk, rt, pq, pg, sh, op, kg>>

\* One turn of `for village_name in village_names`: get_village_data returns
\* or raises.
SearchVillagesItem ==
    /\ bt.op = "search_villages" /\ bt.phase = "loop" /\ bt.i <= Len(bt.items)
    /\ \E outcome \in { "return", "raise" } :
         bt' = batch_item(bt, bt.items[bt.i], outcome)
    /\ UNCHANGED <<audit, inputs, req, tokens, tk, rt, pq, pg, sh, op, kg>>

\* get_villages_for_locations(coordinates_list): results = {}
VillagesForLocationsEnter ==
    /\ bt.phase \in { "idle", "done" }
    /\ \E coordinates_list \in SeqsUpTo(Locations, MaxBatch) :
         bt' = [op |-> "get_villages_for_locations", phase |-> "loop",
                items |-> coordinates_list, i |-> 1, results |-> <<>>,
                outcomes |-> <<>>, attempted |-> <<>>]
    /\ UNCHANGED <<audit, inputs, req, tokens, tk, rt, pq, pg, sh, op, kg>>

\* One turn of `for i, coordinates in enumerate(coordinates_list)`.
VillagesForLocationsItem ==
    /\ bt.op = "get_villages_for_locations" /\ bt.phase = "loop"
    /\ bt.i <= Len(bt.items)
    /\ \E outcome \in { "return", "raise" } :
         bt' = batch_item(bt, location_key(bt.items[bt.i]), outcome)
    /\ UNCHANGED <<audit, inputs, req, tokens, tk, rt, pq, pg, sh, op, kg>>

\* return results
BatchReturn ==
    /\ bt.phase = "loop" /\ bt.i > Len(bt.items)
    /\ bt' = [bt EXCEPT !.phase = "done"]
    /\ UNCHANGED <<audit, inputs, req, tokens, tk, rt, pq, pg, sh, op, kg>>

(***************************************************************************)
(* LULCAOIWiseAPI.get_polygon_statistics and get_bounding_box_statistics   *)
(***************************************************************************)

PgIdle == [op |-> "none"]

\* Longest coordinate list given to get_polygon_statistics.
MaxVertices == 4

\* Values a longitude or latitude takes.
Ordinates == 0..1

\* [lng, lat] pairs.
Vertices == Ordinates \X Ordinates

\* f"{coord[0]} {coord[1]}"
coord_string(coord) == ToString(coord[1]) \o " " \o ToString(coord[2])

\* ','.join(coord_strings)
RECURSIVE join(_)
join(strings) ==
    IF strings = <<>> THEN ""
    ELSE IF Len(strings) = 1 THEN strings[1]
    ELSE strings[1] \o "," \o join(Tail(strings))

\* A conversion that appends the first vertex whether or not the list is
\* closed.
get_polygon_statistics_AlwaysAppends(coordinates_list) ==
    LET coord_strings == [k \in 1..Len(coordinates_list) |->
                              coord_string(coordinates_list[k])]
    IN  IF coordinates_list = <<>>
        THEN [kind |-> "raise", exception |-> "IndexError"]
        ELSE LET closed == Append(coord_strings, coord_strings[1])
             IN  [kind |-> "sent", coord_strings |-> closed,
                  geometry_wkt |-> "POLYGON((" \o join(closed) \o "))"]

\* get_polygon_statistics up to its call of get_aoi_statistics: the strings
\* of the ring and the WKT text handed on.  coordinates_list[0] of an empty
\* list raises IndexError.
get_polygon_statistics(coordinates_list) ==
    LET coord_strings == [k \in 1..Len(coordinates_list) |->
                              coord_string(coordinates_list[k])]
    IN  IF coordinates_list = <<>>
        THEN [kind |-> "raise", exception |-> "IndexError"]
        ELSE LET closed ==
                     IF coordinates_list[1] # coordinates_list[Len(coordinates_list)]
                     THEN Append(coord_strings, coord_strings[1])
                     ELSE coord_strings
             IN  [kind |-> "sent", coord_strings |-> closed,
                  geometry_wkt |-> "POLYGON((" \o join(closed) \o "))"]

\* A bounding box conversion that lists the four corners and leaves the
\* closing to get_polygon_statistics.
get_bounding_box_statistics_FourCorners(min_lng, min_lat, max_lng, max_lat) ==
    get_polygon_statistics(<< <<min_lng, min_lat>>, <<max_lng, min_lat>>,
                              <<max_lng, max_lat>>, <<min_lng, max_lat>> >>)

get_bounding_box_statistics(min_lng, min_lat, max_lng, max_lat) ==
    get_polygon_statistics(<< <<min_lng, min_lat>>, <<max_lng, min_lat>>,
                              <<max_lng, max_lat>>, <<min_lng, max_lat>>,
                              <<min_lng, min_lat>> >>)

PolygonStatistics ==
    /\ pg.op = "none"
    /\ \E coordinates_list \in SeqsUpTo(Vertices, MaxVertices) :
         pg' = [op |-> "get_polygon_statistics", input |-> coordinates_list,
                res |-> get_polygon_statistics(coordinates_list)]
    /\ UNCHANGED <<audit, inputs, req, tokens, tk, rt, pq, bt, sh, op, kg>>

BoundingBoxStatistics ==
    /\ pg.op = "none"
    /\ \E min_lng \in Ordinates, min_lat \in Ordinates,
          max_lng \in Ordinates, max_lat \in Ordinates :
         pg' = [op |-> "get_bounding_box_statistics",
                input |-> <<min_lng, min_lat, max_lng, max_lat>>,
                res |-> get_bounding_box_statistics(min_lng, min_lat,
                                                    max_lng, max_lat)]
    /\ UNCHANGED <<audit, inputs, req, tokens, tk, rt, pq, bt, sh, op, kg>>

(***************************************************************************)
(* The shaping step of the clients (_format_response)                      *)
(***************************************************************************)

ShIdle == [client |-> "none"]

\* Longest 'features' / 'lulc_statistics' list in a provider response.
MaxFeatures == 3

\* total_area += area, written as a plain assignment.
add_area_Overwrites(total_area, area) == area

\* total_area += area
add_area(total_area, area) == total_area + area

\* lulc_classes[lulc_code] = {...}: a dict keeps the position of a key it
\* already has.
set_class(lulc_classes, lulc_code, area) ==
    IF \E k \in 1..Len(lulc_classes) : lulc_classes[k].code = lulc_code
    THEN [k \in 1..Len(lulc_classes) |->
             IF lulc_classes[k].code = lulc_code
             THEN [code |-> lulc_code, area |-> area] ELSE lulc_classes[k]]
    ELSE Append(lulc_classes, [code |-> lulc_code, area |-> area])

\* The accumulators of the LULC shaping loop.
LulcAcc0 == [total_area |-> 0, lulc_classes |-> <<>>, raised |-> None]

\* One turn of `for feature in raw_data['features']`.
lulc_feature(acc, feature) ==
    LET has == contains(feature, "properties")
    IN  IF has = None THEN [acc EXCEPT !.raised = Some("TypeError")]
        ELSE IF ~has[1] THEN acc
        ELSE IF feature.t # "dict" THEN [acc EXCEPT !.raised = Some("TypeError")]
        ELSE LET props == feature.fields["properties"]
             IN  IF props.t # "dict"
                 THEN [acc EXCEPT !.raised = Some("AttributeError")]
                 ELSE LET area == get(props, "area", JNum(0))
                          lulc_code == or(get(props, "lulc_code", JNull),
                                          get(props, "class_code", JNull))
                      IN  IF truthy(lulc_code) /\ truthy(area)
                          THEN IF lulc_code.t \in { "list", "dict" } \/ area.t # "num"
                               THEN [acc EXCEPT !.raised = Some("TypeError")]
                               ELSE [acc EXCEPT
                                       !.lulc_classes = set_class(@, lulc_code, area.n),
                                       !.total_area = add_area(@, area.n)]
                          ELSE acc

\* One turn of `for stat in stats`.
lulc_stat(acc, stat) ==
    IF stat.t # "dict" THEN [acc EXCEPT !.raised = Some("AttributeError")]
    ELSE LET area == get(stat, "area", JNum(0))
             lulc_code == get(stat, "code", JNull)
         IN  IF truthy(lulc_code)
             THEN IF lulc_code.t \in { "list", "dict" } \/ area.t # "num"
                  THEN [acc EXCEPT !.raised = Some("TypeError")]
                  ELSE [acc EXCEPT
                          !.lulc_classes = set_class(@, lulc_code, area.n),
                          !.total_area = add_area(@, area.n)]
             ELSE acc

\* The two loops, stopped by the first exception.
RECURSIVE lulc_loop(_, _, _)
lulc_loop(acc, items, shape) ==
    IF items = <<>> \/ acc.raised # None THEN acc
    ELSE lulc_loop(IF shape = "features" THEN lulc_feature(acc, Head(items))
                   ELSE lulc_stat(acc, Head(items)),
                   Tail(items), shape)

\* max(lulc_classes.items(), key=lambda x: x[1]['area']): the first entry of
\* the largest area.
max_by_area(lulc_classes) ==
    LET best == CHOOSE k \in 1..Len(lulc_classes) :
                    /\ \A j \in 1..Len(lulc_classes) :
                          lulc_classes[j].area <= lulc_classes[k].area
                    /\ \A j \in 1..(k - 1) :
                          lulc_classes[j].area < lulc_classes[k].area
    IN  lulc_classes[best]

\* Percentages are kept in thousandths of a percent.
PercentUnit == 1000

\* (area / total_area * 100) if total_area > 0 else 0
percentage(area, total_area) ==
    IF total_area > 0 THEN (area * 100 * PercentUnit) \div total_area ELSE 0

\* The summary LULCAOIWiseAPI._format_response builds from the accumulators.
lulc_summary(acc) ==
    [total_area |-> acc.total_area,
     lulc_classes |-> acc.lulc_classes,
     states_covered |-> <<>>,
     dominant_lulc_class |->
         IF acc.lulc_classes # <<>>
         THEN LET dominant_class == max_by_area(acc.lulc_classes)
              IN  Some([code |-> dominant_class.code,
                        area |-> dominant_class.area,
                        percentage |-> percentage(dominant_class.area,
                                                  acc.total_area)])
         ELSE None]

\* LULCAOIWiseAPI._format_response
lulc_format_response(raw_data) ==
    IF raw_data.t # "dict"
    THEN [kind |-> "return",
          summary |-> [total_area |-> 0, lulc_classes |-> <<>>,
                       states_covered |-> <<>>, dominant_lulc_class |-> None]]
    ELSE IF "features" \in DOMAIN raw_data.fields
    THEN LET features == raw_data.fields["features"]
         IN  CASE features.t \in { "null", "num" } -> ShRaise("TypeError")
               [] features.t = "list" ->
                    LET acc == lulc_loop(LulcAcc0, features.items, "features")
                    IN  IF acc.raised # None THEN ShRaise(acc.raised[1])
                        ELSE [kind |-> "return", summary |-> lulc_summary(acc)]
               [] features.t = "dict" ->
                    \* iterating a dict gives its keys, strings without 'properties'
                    [kind |-> "return", summary |-> lulc_summary(LulcAcc0)]
               [] features.t = "str" ->
                    [kind |-> "return", summary |-> lulc_summary(LulcAcc0)]
    ELSE IF "lulc_statistics" \in DOMAIN raw_data.fields
    THEN LET stats == raw_data.fields["lulc_statistics"]
         IN  IF stats.t = "list"
             THEN LET acc == lulc_loop(LulcAcc0, stats.items, "lulc_statistics")
                  IN  IF acc.raised # None THEN ShRaise(acc.raised[1])
                      ELSE [kind |-> "return", summary |-> lulc_summary(acc)]
             ELSE [kind |-> "return", summary |-> lulc_summary(LulcAcc0)]
    ELSE [kind |-> "return", summary |-> lulc_summary(LulcAcc0)]

\* facility_type.lower() on the facility types of the modelled responses.
lower(str) ==
    CASE str = "Hospital" -> "hospital"
      [] str = "Post Office" -> "post office"
      [] OTHER -> str

\* 'hospital' in s, 'post' in s on lower-cased facility types.
has_hospital(str) == str \in { "hospital" }
has_post(str) == str \in { "post office" }

\* facilities_by_type[facility_type] += 1, or = 1 for a new type
count_type(facilities_by_type, facility_type) ==
    IF facility_type \in DOMAIN facilities_by_type
    THEN [facilities_by_type EXCEPT ![facility_type] = @ + 1]
    ELSE dict_set(facilities_by_type, facility_type, 1)

PostalAcc0 ==
    [hospitals |-> 0, post_offices |-> 0, facilities_by_type |-> <<>>,
     raised |-> None]

\* One turn of `for feature in features` of PostalHospitalAPI._format_response.
postal_feature(acc, feature) ==
    LET has == contains(feature, "properties")
    IN  IF has = None THEN [acc EXCEPT !.raised = Some("TypeError")]
        ELSE IF ~has[1] THEN acc
        ELSE IF feature.t # "dict" THEN [acc EXCEPT !.raised = Some("TypeError")]
        ELSE LET props == feature.fields["properties"]
             IN  IF props.t # "dict"
                 THEN [acc EXCEPT !.raised = Some("AttributeError")]
                 ELSE LET facility_type == get(props, "type", JStr("unknown"))
                      IN  IF facility_type.t \in { "list", "dict" }
                          THEN [acc EXCEPT !.raised = Some("TypeError")]
                          ELSE IF facility_type.t # "str"
                          \* counted under its key, then .lower() fails
                          THEN [acc EXCEPT !.raised = Some("AttributeError")]
                          ELSE [acc EXCEPT
                                  !.facilities_by_type = count_type(@, facility_type.s),
                                  !.hospitals =
                                      IF has_hospital(lower(facility_type.s))
                                      THEN @ + 1 ELSE @,
                                  !.post_offices =
                                      IF /\ ~has_hospital(lower(facility_type.s))
                                         /\ has_post(lower(facility_type.s))
                                      THEN @ + 1 ELSE @]

RECURSIVE postal_loop(_, _)
postal_loop(acc, items) ==
    IF items = <<>> \/ acc.raised # None THEN acc
    ELSE postal_loop(postal_feature(acc, Head(items)), Tail(items))

\* PostalHospitalAPI._format_response
postal_format_response(raw_data) ==
    LET summary(total, acc) ==
            [total_facilities |-> total, hospitals |-> acc.hospitals,
             post_offices |-> acc.post_offices,
             facilities_by_type |-> acc.facilities_by_type]
    IN  IF raw_data.t # "dict" \/ "features" \notin DOMAIN raw_data.fields
        THEN [kind |-> "return", summary |-> summary(0, PostalAcc0)]
        ELSE LET features == raw_data.fields["features"]
             IN  IF len(features) = None THEN ShRaise("TypeError")
                 ELSE IF features.t = "list"
                 THEN LET acc == postal_loop(PostalAcc0, features.items)
                      IN  IF acc.raised # None THEN ShRaise(acc.raised[1])
                          ELSE [kind |-> "return",
                                summary |-> summary(len(features)[1], acc)]
                 \* the keys of a dict and the characters of a string are
                 \* strings without 'properties'
                 ELSE [kind |-> "return",
                       summary |-> summary(len(features)[1], PostalAcc0)]

VillageSummary0 ==
    [found |-> FALSE, state |-> JNull, district |-> JNull, coordinates |-> None,
     population |-> JNull, census_year |-> "2001"]

\* The part of VillageGeocodingAPI._format_response that reads the first
\* feature.
village_first_feature(feature) ==
    LET has == contains(feature, "properties")
        props == feature.fields["properties"]
        withProps ==
            IF has[1]
            THEN [VillageSummary0 EXCEPT
                    !.found = TRUE,
                    !.state = get(props, "state", JNull),
                    !.district = get(props, "district", JNull),
                    !.population = get(props, "population", JNull)]
            ELSE [VillageSummary0 EXCEPT !.found = TRUE]
        hasGeometry == contains(feature, "geometry")
        geometry == feature.fields["geometry"]
        hasCoordinates == contains(geometry, "coordinates")
        coords == geometry.fields["coordinates"]
    IN  IF has = None THEN ShRaise("TypeError")
        ELSE IF has[1] /\ feature.t # "dict" THEN ShRaise("TypeError")
        ELSE IF has[1] /\ props.t # "dict" THEN ShRaise("AttributeError")
        ELSE IF ~hasGeometry[1] THEN [kind |-> "return", summary |-> withProps]
        ELSE IF hasCoordinates = None THEN ShRaise("TypeError")
        ELSE IF ~hasCoordinates[1] THEN [kind |-> "return", summary |-> withProps]
        \* 'coordinates' in geometry held: geometry is a dict here
        ELSE IF ~truthy(coords) THEN [kind |-> "return", summary |-> withProps]
        ELSE IF len(coords) = None THEN ShRaise("TypeError")
        \* coords[0] of a dict: its keys are strings
        ELSE IF coords.t = "dict" THEN ShRaise("KeyError")
        \* a list here: the modelled responses carry no string coordinates
        ELSE [kind |-> "return",
              summary |-> [withProps EXCEPT
                  !.coordinates =
                      Some([lng |-> coords.items[1],
                            lat |-> IF Len(coords.items) > 1
                                    THEN coords.items[2] ELSE JNull])]]

\* The branch of VillageGeocodingAPI._format_response written for a response
\* that is a non-empty list (lines 127-137): the summary taken from the first
\* element.
village_list_branch(raw_data) ==
    LET village_info == raw_data.items[1]
    IN  IF village_info.t = "dict"
        THEN [VillageSummary0 EXCEPT
                !.found = TRUE,
                !.state = get(village_info, "state", JNull),
                !.district = get(village_info, "district", JNull),
                !.population = get(village_info, "population", JNull),
                !.coordinates = Some([lng |-> get(village_info, "longitude", JNull),
                                      lat |-> get(village_info, "latitude", JNull)])]
        ELSE [VillageSummary0 EXCEPT !.found = TRUE]

\* VillageGeocodingAPI._format_response; its list branch hangs under the
\* dict test and is never taken.
village_format_response(raw_data) ==
    IF raw_data.t # "dict" \/ "features" \notin DOMAIN raw_data.fields
    THEN [kind |-> "return", summary |-> VillageSummary0]
    ELSE LET features == raw_data.fields["features"]
         IN  IF ~truthy(features)
             THEN [kind |-> "return", summary |-> VillageSummary0]
             ELSE CASE features.t = "num" -> ShRaise("TypeError")
                    [] features.t = "dict" -> ShRaise("KeyError")
                    [] features.t = "str" ->
                         [kind |-> "return",
                          summary |-> [VillageSummary0 EXCEPT !.found = TRUE]]
                    [] features.t = "list" -> village_first_feature(features.items[1])

\* Class codes and areas of the modelled provider responses.
LulcCodes == { "01", "02" }
MaxArea == 2

\* Entries of a 'features' list and of a 'lulc_statistics' list: the
\* documented ones, then a feature that is not a dict, a feature whose
\* properties are null, and an entry whose area is null.
LulcFeatures ==
    { JDict([properties |-> JDict([area |-> JNum(a), lulc_code |-> JStr(c)])]) :
          a \in 0..MaxArea, c \in LulcCodes }
LulcStats ==
    { JDict([area |-> JNum(a), code |-> JStr(c)]) : a \in 0..MaxArea, c \in LulcCodes }
OddFeatures ==
    { JNum(5),
      JDict([properties |-> JNull]),
      JDict([properties |-> JDict([area |-> JNull, lulc_code |-> JStr("01")])]) }
OddStats ==
    { JNum(5), JDict([area |-> JNull, code |-> JStr("01")]) }

\* Values that are parseable JSON but not of the documented shape.
OddValues ==
    { JNull, JNum(5), JList(<<>>), JDict(<<>>),
      JDict([features |-> JNull]), JDict([features |-> JNum(5)]),
      JDict([features |-> JDict(<<>>)]) }

LulcRawData ==
    { JDict([features |-> JList(l)]) :
          l \in SeqsUpTo(LulcFeatures \cup OddFeatures, MaxFeatures) }
    \cup { JDict([lulc_statistics |-> JList(l)]) :
               l \in SeqsUpTo(LulcStats \cup OddStats, MaxFeatures) }
    \cup OddValues

\* Entries of the 'features' list of a proximity response: facilities of
\* the documented types, one without a type, then the odd ones.
FacilityTypes == { "Hospital", "Post Office", "school" }
PostalFeatures ==
    { JDict([properties |-> JDict([type |-> JStr(ty)])]) : ty \in FacilityTypes }
    \cup { JDict([properties |-> JDict(<<>>)]) }
OddPostalFeatures ==
    { JNum(5), JDict([properties |-> JNull]),
      JDict([properties |-> JDict([type |-> JNull])]) }

PostalRawData ==
    { JDict([features |-> JList(l)]) :
          l \in SeqsUpTo(PostalFeatures \cup OddPostalFeatures, MaxFeatures) }
    \cup OddValues

\* Entries of the 'features' list of a village response.
VillageFeatures ==
    { JDict([properties |-> JDict([state |-> JStr("Karnataka"), district |-> d]),
             geometry |-> JDict([coordinates |-> JList(<<JNum(76), JNum(15)>>)])]) :
          d \in { JStr("Ballari"), JNull } }
    \cup { JDict([properties |-> JDict(<<>>)]) }
OddVillageFeatures ==
    { JNum(5), JDict([properties |-> JNull]), JDict([geometry |-> JNull]),
      JDict([geometry |-> JDict([coordinates |-> JNum(5)])]),
      JDict([geometry |-> JDict([coordinates |-> JList(<<JNum(76)>>)])]) }

\* Elements of a provider response that is a list of villages.
VillageInfos ==
    { JDict([state |-> JStr("Karnataka"), district |-> d, population |-> JNum(2777),
             longitude |-> JNum(76), latitude |-> JNum(15)]) :
          d \in { JStr("Ballari"), JNull } }
    \cup { JDict([name |-> JStr("Hampi")]), JStr("Hampi") }

VillageRawData ==
    { JDict([features |-> JList(l)]) :
          l \in SeqsUpTo(VillageFeatures \cup OddVillageFeatures, MaxFeatures) }
    \cup { JList(l) : l \in SeqsUpTo(VillageInfos, MaxFeatures) }
    \cup OddValues

\* The summary fields each endpoint documents.
SummaryFields(client) ==
    CASE client = "lulc_aoi_wise" ->
            { "total_area", "lulc_classes", "states_covered", "dominant_lulc_class" }
      [] client = "postal_hospital" ->
            { "total_facilities", "hospitals", "post_offices", "facilities_by_type" }
      [] client = "village_geocoding" ->
            { "found", "state", "district", "coordinates", "population",
              "census_year" }

\* data = response.json(); self._format_response(data, ...) of
\* PostalHospitalAPI.get_proximity_data
ShapePostalHospital ==
    /\ sh.client = "none"
    /\ \E raw_data \in PostalRawData :
         sh' = [client |-> "postal_hospital", raw_data |-> raw_data,
                res |-> postal_format_response(raw_data)]
    /\ UNCHANGED <<audit, inputs, req, tokens, tk, rt, pq, bt, pg, op, kg>>

\* data = response.json(); self._format_response(data, ...) of
\* VillageGeocodingAPI.get_village_data
ShapeVillageGeocoding ==
    /\ sh.client = "none"
    /\ \E raw_data \in VillageRawData :
         sh' = [client |-> "village_geocoding", raw_data |-> raw_data,
                res |-> village_format_response(raw_data)]
    /\ UNCHANGED <<audit, inputs, req, tokens, tk, rt, pq, bt, pg, op, kg>>

\* data = response.json(); self._format_response(data, ...) of
\* LULCAOIWiseAPI.get_aoi_statistics
ShapeLulcAoi ==
    /\ sh.client = "none"
    /\ \E raw_data \in LulcRawData :
         sh' = [client |-> "lulc_aoi_wise", raw_data |-> raw_data,
                res |-> lulc_format_response(raw_data)]
    /\ UNCHANGED <<audit, inputs, req, tokens, tk, rt, pq, bt, pg, op, kg>>

(***************************************************************************)
(* One client operation: outbound call and file writes                     *)
(***************************************************************************)

OpIdle == [client |-> "none", phase |-> "idle"]

\* The operations that make an outbound call: the seven Bhuvan clients by
\* their service name, and call_kgis_api.
BhuvanClients == Services
Clients == BhuvanClients \cup { "kgis" }

\* The four clients whose operation re-raises what its try block caught.
ReraisingClients ==
    { "lulc_aoi_wise", "postal_hospital", "village_geocoding",
      "village_reverse_geocoding" }

\* What the provider answers to the one request: a JSON body of the
\* documented shape, a JSON body the shaping step cannot read, a body that
\* is not JSON, a zip file (geoid only), or no usable HTTP response.
ProviderAnswers(client) ==
    { "json", "odd_json", "not_json", "http_error" }
    \cup (IF client = "geoid" THEN { "zip" } ELSE {})

\* A file write a client attempted and whether it succeeded.
Write(file, ok) == [file |-> file, ok |-> ok]

OpReturn(what) == [kind |-> "return", what |-> what]
OpRaise(exception) == [kind |-> "raise", exception |-> exception]

\* The local checks made before the request: get_statistics wants a
\* distcode, get_route wants both points in one region; the token tests of
\* the clients hold for every client that could be constructed.
local_rejection(client, input_ok) ==
    IF client \in { "lulc_statistics", "routing" } /\ ~input_ok
    THEN Some(OpReturn("error"))
    ELSE None

\* A client that sends the request again after a failed one.
after_response_Retries(o, answer, zip_ok, save_ok) ==
    IF answer = "http_error" /\ o.calls < 2
    THEN [o EXCEPT !.phase = "ready"]
    ELSE [o EXCEPT !.phase = "done", !.res = OpReturn("error")]

\* The rest of the operation once the provider has answered: shaping, the
\* file writes and the value returned or the exception raised.
after_response(o, answer, zip_ok, save_ok) ==
    LET saved == <<Write("json", save_ok)>>
        end(writes, res) ==
            [o EXCEPT !.phase = "done", !.writes = writes, !.res = res]
    IN  CASE o.client \in ReraisingClients ->
               (CASE answer = "json" -> end(saved, OpReturn("shaped"))
                  [] answer = "odd_json" -> end(<<>>, OpRaise("TypeError"))
                  [] answer = "not_json" -> end(<<>>, OpRaise("JSONDecodeError"))
                  [] answer = "http_error" -> end(<<>>, OpRaise("RequestException")))
          [] o.client = "lulc_statistics" ->
               IF answer \in { "json", "odd_json" }
               THEN end(<<>>, OpReturn("shaped"))
               ELSE end(<<>>, OpReturn("error"))
          [] o.client = "routing" ->
               IF answer = "json" THEN end(saved, OpReturn("shaped"))
               ELSE end(<<>>, OpReturn("error"))
          [] o.client = "geoid" ->
               (CASE answer = "zip" ->
                       IF zip_ok THEN end(<<Write("zip", TRUE)>>, OpReturn("download"))
                       ELSE end(<<Write("zip", FALSE)>> \o saved,
                                OpReturn("simulated"))
                  [] answer \in { "json", "odd_json" } -> end(saved, OpReturn("shaped"))
                  [] answer = "not_json" -> end(<<>>, OpReturn("text"))
                  [] answer = "http_error" -> end(saved, OpReturn("simulated")))
          [] o.client = "kgis" ->
               IF answer = "json" THEN end(<<>>, OpReturn("shaped"))
               ELSE end(<<>>, OpReturn("error"))

\* A client operation is entered with its input.
ClientEnter ==
    /\ op.phase \in { "idle", "done" }
    /\ \E client \in Clients, input_ok \in BOOLEAN :
         op' = [client |-> client, phase |-> "entered", input_ok |-> input_ok,
                rejected |-> FALSE, calls |-> 0, answer |-> "none",
                writes |-> <<>>, res |-> [kind |-> "none"]]
    /\ UNCHANGED <<audit, inputs, req, tokens, tk, rt, pq, bt, pg, sh, kg>>

\* The checks before the request.
ClientLocalChecks ==
    /\ op.phase = "entered"
    /\ LET rejection == local_rejection(op.client, op.input_ok)
       IN  op' = IF rejection # None
                 THEN [op EXCEPT !.phase = "done", !.rejected = TRUE,
                                 !.res = rejection[1]]
                 ELSE [op EXCEPT !.phase = "ready"]
    /\ UNCHANGED <<audit, inputs, req, tokens, tk, rt, pq, bt, pg, sh, kg>>

\* requests.get / requests.post: the one outbound call.
ClientRequest ==
    /\ op.phase = "ready"
    /\ \E answer \in ProviderAnswers(op.client) :
         op' = [op EXCEPT !.phase = "answered", !.calls = @ + 1,
                          !.answer = answer]
    /\ UNCHANGED <<audit, inputs, req, tokens, tk, rt, pq, bt, pg, sh, kg>>

\* Everything after the answer, with the outcome of the file writes.
ClientFinish ==
    /\ op.phase = "answered"
    /\ \E zip_ok \in BOOLEAN, save_ok \in BOOLEAN :
         op' = after_response(op, op.answer, zip_ok, save_ok)
    /\ UNCHANGED <<audit, inputs, req, tokens, tk, rt, pq, bt, pg, sh, kg>>

(***************************************************************************)
(* The KGIS services (kgis/services.py) and endpoints (kgis/api.py)        *)
(***************************************************************************)

KgIdle == [service |-> "none", phase |-> "idle"]

\* The endpoints of kgis/api.py that go through call_kgis_api, and the
\* polygon endpoint.
HierarchyEndpoints ==
    { "admin-hierarchy", "district-name", "location-details", "hobli-code",
      "taluk-code", "distance-btw-pincodes", "nearby-hierarchy" }
KgisEndpoints == HierarchyEndpoints \cup { "geo-polygon-area" }

\* Fields of the response schemas of kgis/schemas.py the model follows, and
\* those declared without a default.
SchemaFields(endpoint) ==
    CASE endpoint = "admin-hierarchy" -> { "districtName", "districtCode", "message" }
      [] endpoint = "district-name" -> { "districtCode" }
      [] endpoint = "location-details" -> { "districtName", "districtCode", "message" }
      [] endpoint = "hobli-code" -> { "districtName", "districtCode", "message" }
      [] endpoint = "taluk-code" -> { "districtName", "districtCode", "message" }
      [] endpoint = "distance-btw-pincodes" -> { "keymsg", "distance" }
      [] endpoint = "nearby-hierarchy" -> { "districtName", "districtCode" }
      [] endpoint = "geo-polygon-area" -> { "polygons" }
RequiredFields(endpoint) ==
    CASE endpoint \in { "hobli-code", "taluk-code" } -> { "message" }
      [] endpoint = "distance-btw-pincodes" -> { "keymsg" }
      [] endpoint = "nearby-hierarchy" -> { "districtName", "districtCode" }
      [] endpoint = "geo-polygon-area" -> { "polygons" }
      [] OTHER -> {}

\* The first element of the provider's list: every field filled, or the
\* "not found" record whose codes are empty strings.
FoundRecord ==
    JDict([districtName |-> JStr("Ballari"), districtCode |-> JStr("12"),
           message |-> JStr("200"), keymsg |-> JStr("200"),
           distance |-> JStr("42")])
NotFoundRecord ==
    JDict([districtName |-> JStr(""), districtCode |-> JStr(""),
           message |-> JStr("No data found"), keymsg |-> JStr("No data found"),
           distance |-> JStr("")])

\* What the provider answers: a list whose first element is a record, an
\* empty list, a JSON object instead of a list, a body that is not JSON, or
\* no usable HTTP response.
KgisAnswers == { "found", "not_found", "empty_list", "dict_body", "not_json",
                 "http_error" }

\* call_kgis_api: response.json()[0], or the text of the except branch.
call_kgis_api(answer) ==
    CASE answer = "found" -> FoundRecord
      [] answer = "not_found" -> NotFoundRecord
      [] answer = "empty_list" -> JStr("Unexpected error:list index out of range")
      [] answer = "dict_body" -> JStr("Unexpected error:0")
      [] answer = "not_json" -> JStr("Request failed:Expecting value")
      [] answer = "http_error" -> JStr("Request failed:503 Server Error")

\* A lookup that lets the failure of the request or of the parsing through.
get_geometric_polygon_Propagates(answer) ==
    CASE answer \in { "found", "not_found" } ->
            [kind |-> "return",
             value |-> JDict([polygons |-> JList(<<call_kgis_api(answer)>>)])]
      [] answer = "empty_list" ->
            [kind |-> "return", value |-> JDict([polygons |-> JList(<<>>)])]
      [] answer = "dict_body" ->
            [kind |-> "return", value |-> JDict([polygons |-> JDict(<<>>)])]
      [] answer = "not_json" -> [kind |-> "raise", exception |-> "JSONDecodeError"]
      [] answer = "http_error" -> [kind |-> "raise", exception |-> "RequestException"]

\* get_geometric_polygon: {"polygons": response.json()}, or {"polygons": []}
\* from either except branch.
get_geometric_polygon(answer) ==
    CASE answer \in { "found", "not_found" } ->
            [kind |-> "return",
             value |-> JDict([polygons |-> JList(<<call_kgis_api(answer)>>)])]
      [] answer = "empty_list" ->
            [kind |-> "return", value |-> JDict([polygons |-> JList(<<>>)])]
      [] answer = "dict_body" ->
            [kind |-> "return", value |-> JDict([polygons |-> JDict(<<>>)])]
      [] answer \in { "not_json", "http_error" } ->
            [kind |-> "return", value |-> JDict([polygons |-> JList(<<>>)])]

\* The service function behind an endpoint.
kgis_service(endpoint, answer) ==
    IF endpoint = "geo-polygon-area" THEN get_geometric_polygon(answer)
    ELSE [kind |-> "return", value |-> call_kgis_api(answer)]

\* The body of an endpoint function after its service call: district_name
\* reads data.get("districtCode") when data is truthy, the others return
\* data as it is.
kgis_handler(endpoint, data) ==
    IF endpoint = "district-name" /\ truthy(data)
    THEN IF data.t # "dict" THEN [kind |-> "raise", exception |-> "AttributeError"]
         ELSE IF get(data, "districtCode", JNull) = JStr("")
         THEN [kind |-> "return",
               value |-> JDict([data.fields EXCEPT
                                  !["districtCode"] = data.fields["message"]])]
         ELSE [kind |-> "return", value |-> data]
    ELSE [kind |-> "return", value |-> data]

\* The value a field of the response schema takes from the returned data:
\* the attribute or key when there is one, and "" read as null.
field_value(data, field) ==
    LET v == IF data.t = "dict" THEN get(data, field, JNull) ELSE JNull
    IN  IF v = JStr("") THEN JNull ELSE v

\* The declared response schema applied to what the endpoint function
\* returned: a field without a default must be there and must not be null,
\* and 'polygons' must be a list.
validate_response(endpoint, data) ==
    LET body == [f \in SchemaFields(endpoint) |-> field_value(data, f)]
    IN  IF \/ \E f \in RequiredFields(endpoint) : body[f] = JNull
           \/ endpoint = "geo-polygon-area" /\ body["polygons"].t # "list"
        THEN [kind |-> "raise", exception |-> "ValidationError"]
        ELSE [kind |-> "response", body |-> body]

\* A request reaches an endpoint and the service function makes its call.
KgisCall ==
    /\ kg.phase \in { "idle", "responded" }
    /\ \E endpoint \in KgisEndpoints, answer \in KgisAnswers :
         kg' = [service |-> endpoint, answer |-> answer, phase |-> "called",
                called |-> kgis_service(endpoint, answer),
                handled |-> [kind |-> "none"], out |-> [kind |-> "none"]]
    /\ UNCHANGED <<audit, inputs, req, tokens, tk, rt, pq, bt, pg, sh, op>>

\* The rest of the endpoint function.
KgisHandle ==
    /\ kg.phase = "called"
    /\ kg' = [kg EXCEPT
                !.phase = "handled",
                !.handled = IF kg.called.kind = "raise" THEN kg.called
                            ELSE kgis_handler(kg.service, kg.called.value)]
    /\ UNCHANGED <<audit, inputs, req, tokens, tk, rt, pq, bt, pg, sh, op>>

\* The returned value is put into the declared response schema.
KgisRespond ==
    /\ kg.phase = "handled"
    /\ kg' = [kg EXCEPT
                !.phase = "responded",
                !.out = IF kg.handled.kind = "raise" THEN kg.handled
                        ELSE validate_response(kg.service, kg.handled.value)]
    /\ UNCHANGED <<audit, inputs, req, tokens, tk, rt, pq, bt, pg, sh, op>>

(***************************************************************************)
(* Initial states and specifications                                       *)
(***************************************************************************)

HandlerInit ==
    /\ audit = <<>>
    /\ inputs = {}
    /\ req = [r \in Slots |-> IdleReq]

\* The other components at rest.
TokensIdle == tokens = [k \in TokenKeys |-> Some(k)] /\ tk = TkIdle
RoutingIdle == rt = RtIdle
ParamsIdle == pq = PqIdle
BatchIdle == bt = BtIdle
PolygonIdle == pg = PgIdle
ShapingIdle == sh = ShIdle
ClientIdle == op = OpIdle
KgisIdle == kg = KgIdle
LaterIdle == PolygonIdle /\ ShapingIdle /\ ClientIdle /\ KgisIdle

Init ==
    /\ HandlerInit /\ TokensIdle /\ RoutingIdle /\ ParamsIdle /\ BatchIdle
    /\ LaterIdle

Next ==
    \E r \in Slots :
        \/ get_thematic_statistics(r)
        \/ get_lulc_aoi_statistics(r)
        \/ get_lulc_polygon_statistics(r)
        \/ get_lulc_bounding_box_statistics(r)
        \/ get_geoid_elevation(r)
        \/ get_routing(r)
        \/ get_postal_hospital_proximity(r)
        \/ get_village_geocoding(r)
        \/ get_village_reverse_geocoding(r)

Spec == Init /\ [][Next]_vars

InitTokens ==
    /\ HandlerInit /\ TokensInit /\ RoutingIdle /\ ParamsIdle /\ BatchIdle
    /\ LaterIdle

NextTokens == GetToken \/ GeoidElevation \/ ValidateTokens

SpecTokens == InitTokens /\ [][NextTokens]_vars

NextRouting == RoutingEnter \/ RoutingPreflight \/ RoutingExchange

SpecRouting == Init /\ [][NextRouting]_vars

NextParams ==
    \/ RoutingQuery
    \/ GeoidQuery
    \/ LulcAoiQuery
    \/ PostalHospitalQuery
    \/ VillageGeocodingQuery
    \/ VillageReverseQuery
    \/ ThematicQuery
    \/ ThematicHandlerQuery

SpecParams == Init /\ [][NextParams]_vars

NextBatch ==
    \/ SearchVillagesEnter
    \/ SearchVillagesItem
    \/ VillagesForLocationsEnter
    \/ VillagesForLocationsItem
    \/ BatchReturn

SpecBatch == Init /\ [][NextBatch]_vars

NextPolygon == PolygonStatistics \/ BoundingBoxStatistics

SpecPolygon == Init /\ [][NextPolygon]_vars

NextShaping == ShapeLulcAoi \/ ShapePostalHospital \/ ShapeVillageGeocoding

SpecShaping == Init /\ [][NextShaping]_vars

NextClient == ClientEnter \/ ClientLocalChecks \/ ClientRequest \/ ClientFinish

SpecClient == Init /\ [][NextClient]_vars

NextKgis == KgisCall \/ KgisHandle \/ KgisRespond

SpecKgis == Init /\ [][NextKgis]_vars

(***************************************************************************)
(* Properties of the request handlers (checked under Spec)                 *)
(***************************************************************************)

Finished(r) == req[r].pc = "done"
ClientOutcomeOf(r) == req[r].client[1]
ClientCalled(r) == req[r].client # None

\* C1: a finished request whose client operation was invoked has returned an
\* envelope with exactly one of data/error non-null: data non-null and error
\* null when the client returned, data null and error non-null when it raised.
C1_EnvelopeExactlyOne ==
    \A r \in Slots :
        (Finished(r) /\ ClientCalled(r)) =>
            /\ req[r].response.kind = "envelope"
            /\ (req[r].response.data # None) # (req[r].response.error # None)
            /\ ClientOutcomeOf(r).kind = "return" =>
                   (req[r].response.data # None /\ req[r].response.error = None)
            /\ ClientOutcomeOf(r).kind = "raise" =>
                   (req[r].response.data = None /\ req[r].response.error # None)

\* C2: when the client operation raised, the handler does not raise: it
\* returns an envelope whose error is the exception's message.
C2_HandlerTrapsClientFailure ==
    \A r \in Slots :
        (Finished(r) /\ ClientCalled(r) /\ ClientOutcomeOf(r).kind = "raise") =>
            /\ req[r].response.kind # "exception"
            /\ req[r].response.error = ClientOutcomeOf(r).error

\* C3: once the request that created an audit record has ended, whatever its
\* outcome, the record is no longer pending.
C3_NoPendingAfterRequestEnds ==
    \A r \in Slots :
        Finished(r) => audit[req[r].pk].status \in {"success", "failed"}

C5_EmbeddedErrorNotSuccess ==
    \A r \in Slots :
        (Finished(r) /\ ClientCalled(r)
           /\ req[r].endpoint \in {"/thematic_statistics", "/routing"}
           /\ ClientOutcomeOf(r).kind = "return"
           /\ ClientOutcomeOf(r).error # None) =>
            /\ audit[req[r].pk].status # "success"
            /\ req[r].response.error # None

(***************************************************************************)
(* Properties of the token manager and the geoid client (SpecTokens)       *)
(***************************************************************************)

\* C6: get_token(service) returns the service's own token when that is
\* configured, otherwise the legacy token when that is configured, otherwise
\* fails; it never returns an empty or null token, and never the legacy
\* token when the service has its own.
C6_TokenResolutionOrder ==
    tk.op = "get_token" =>
        LET own == dict_get(tokens, tk.service)
            legacy == tokens["legacy"]
        IN  /\ Truthy(own) => tk.res = [kind |-> "return", value |-> own]
            /\ (~Truthy(own) /\ Truthy(legacy)) =>
                   tk.res = [kind |-> "return", value |-> legacy]
            /\ (~Truthy(own) /\ ~Truthy(legacy)) => tk.res.kind = "raise"
            /\ tk.res.kind = "return" => Truthy(tk.res.value)
            /\ (Truthy(own) /\ tk.service # "legacy" /\ tk.res.kind = "return") =>
                   tk.res.value # Some("legacy")

\* C6 witness: a service whose own variable is set to the empty string got
\* the legacy token.
C6_Witness ==
    /\ tk.op = "get_token"
    /\ tk.service = "routing"
    /\ tokens["routing"] = Some("")
    /\ tk.res = [kind |-> "return", value |-> Some("legacy")]

\* C7: with neither the geoid token nor the legacy token configured,
\* constructing the geoid client and calling get_elevation_data does not
\* raise: it returns simulated=true with every summary field and makes no
\* outbound call.
C7_GeoidSimulatedWithoutCredential ==
    (tk.op = "geoid" /\ ~Truthy(tokens["geoid"]) /\ ~Truthy(tokens["legacy"])) =>
        /\ tk.res.kind = "return"
        /\ tk.res.simulated
        /\ GeoidSimulatedSummary \subseteq tk.res.summary
        /\ tk.res.outbound = 0

(***************************************************************************)
(* Properties of RoutingAPI.get_route (SpecRouting)                        *)
(***************************************************************************)

RtDistance == haversine_distance(rt.start[1], rt.start[2], rt.end[1], rt.end[2])

\* C8: for every start/end pair more than 1000 km apart, get_route returns
\* the structured no-route error (route_found false, an error message, no
\* route data) and issues no outbound HTTP call.
C8_FarPairsRejectedLocally ==
    /\ (rt.phase = "done" /\ RtDistance > 1000 * 1000) =>
        /\ rt.res.summary.route_found = FALSE
        /\ rt.res.error # None
        /\ rt.res.route_data = None
        /\ rt.res.outbound = <<>>
    /\ rt.phase = "sent" => RtDistance <= 1000 * 1000

\* C8 witness: the two far corners of the Andhra Pradesh box, 1155 km apart
\* and inside one common box, were asked for and the request was rejected
\* without a call.
C8_Witness ==
    /\ rt.phase = "done"
    /\ rt.start = <<25, 154>> /\ rt.end = <<39, 170>>
    /\ RtDistance > 1000 * 1000
    /\ InCommonBox(25, 154, 39, 170)
    /\ rt.res.summary.route_found = FALSE
    /\ rt.res.outbound = <<>>

(***************************************************************************)
(* Properties of the outbound queries (SpecParams)                         *)
(***************************************************************************)

\* C9: whatever optional parameters the caller supplies, the outbound query
\* carries the resolved credential and the primary subject parameters
\* unchanged.
C9_CallerNeverOverrides ==
    pq.client # "none" =>
        \A k \in ProtectedKeys(pq.client) : pq.params[k] = pq.fixed[k]

(***************************************************************************)
(* Properties of the batch lookups (SpecBatch)                             *)
(***************************************************************************)

BatchKey(item) == IF bt.op = "search_villages" THEN item ELSE location_key(item)
FailedItems == { k \in 1..Len(bt.items) : bt.outcomes[k] = "raise" }

\* C10: a batch lookup over N inputs returns N results, and when exactly
\* item k failed, the result of item k is an error record and the result of
\* every other item is a normal summary.
C10_BatchReturnsNResults ==
    bt.phase = "done" =>
        /\ Cardinality(DOMAIN bt.results) = Len(bt.items)
        /\ \A k \in 1..Len(bt.items) :
            FailedItems = { k } =>
                /\ bt.results[BatchKey(bt.items[k])].kind = "error"
                /\ \A j \in 1..Len(bt.items) \ { k } :
                    bt.results[BatchKey(bt.items[j])].kind = "summary"

\* C11: a batch lookup calls the single lookup once per input item, in
\* input order; an item whose lookup raised is recorded and the items after
\* it are still looked up; the batch returns only after the last item.
C11_BatchAttemptsEveryItemInOrder ==
    bt.phase # "idle" =>
        /\ bt.attempted = SubSeq(bt.items, 1, bt.i - 1)
        /\ Len(bt.outcomes) = Len(bt.attempted)
        /\ bt.phase = "done" => bt.attempted = bt.items

\* A returned batch of three items whose first lookup raised and whose later
\* lookups were still made.
C11_Witness ==
    /\ bt.phase = "done"
    /\ Len(bt.items) = 3
    /\ bt.outcomes[1] = "raise"
    /\ bt.outcomes[3] = "return"
    /\ bt.attempted = bt.items

(***************************************************************************)
(* Properties of the polygon conversions (SpecPolygon)                     *)
(***************************************************************************)

PgOpen == pg.input[1] # pg.input[Len(pg.input)]
PgInputStrings == [k \in 1..Len(pg.input) |-> coord_string(pg.input[k])]

\* C12: for every non-empty list of [lng, lat] pairs the conversion hands on
\* a ring whose first and last vertices are equal; an open list gets its
\* first vertex appended once (len+1 vertices), a closed list is emitted
\* unchanged (len vertices), and converting the closed list again gives the
\* same ring.
C12_PolygonRingClosedOnce ==
    (pg.op = "get_polygon_statistics" /\ pg.input # <<>>) =>
        /\ pg.res.kind = "sent"
        /\ pg.res.coord_strings[1] = pg.res.coord_strings[Len(pg.res.coord_strings)]
        /\ PgOpen =>
              /\ pg.res.coord_strings = Append(PgInputStrings, PgInputStrings[1])
              /\ get_polygon_statistics(Append(pg.input, pg.input[1])).coord_strings
                     = pg.res.coord_strings
        /\ ~PgOpen =>
              pg.res.coord_strings = PgInputStrings
        /\ pg.res.geometry_wkt = "POLYGON((" \o join(pg.res.coord_strings) \o "))"

\* The closed list [[0,0],[1,0],[1,1],[0,0]] converted to a ring of four
\* vertices.
C12_Witness ==
    /\ pg.op = "get_polygon_statistics"
    /\ pg.input = << <<0, 0>>, <<1, 0>>, <<1, 1>>, <<0, 0>> >>
    /\ pg.res.kind = "sent"
    /\ pg.res.geometry_wkt = "POLYGON((0 0,1 0,1 1,0 0))"

\* C13: every bounding box, a degenerate one included, is sent as the five
\* vertices (min_lng,min_lat), (max_lng,min_lat), (max_lng,max_lat),
\* (min_lng,max_lat), (min_lng,min_lat).
C13_BoundingBoxFiveVertices ==
    pg.op = "get_bounding_box_statistics" =>
        LET min_lng == pg.input[1]
            min_lat == pg.input[2]
            max_lng == pg.input[3]
            max_lat == pg.input[4]
        IN  /\ pg.res.kind = "sent"
            /\ pg.res.coord_strings =
                   << coord_string(<<min_lng, min_lat>>),
                      coord_string(<<max_lng, min_lat>>),
                      coord_string(<<max_lng, max_lat>>),
                      coord_string(<<min_lng, max_lat>>),
                      coord_string(<<min_lng, min_lat>>) >>

\* The degenerate box (1, 1, 1, 1) sent as five equal vertices.
C13_Witness ==
    /\ pg.op = "get_bounding_box_statistics"
    /\ pg.input = <<1, 1, 1, 1>>
    /\ pg.res.kind = "sent"
    /\ Len(pg.res.coord_strings) = 5

(***************************************************************************)
(* Properties of the shaping steps (SpecShaping)                           *)
(***************************************************************************)

\* The per-class entries of a response in the 'features' shape or the
\* 'lulc_statistics' shape, when every entry carries a non-negative area.
ShEntries ==
    IF "features" \in DOMAIN sh.raw_data.fields
    THEN sh.raw_data.fields["features"].items
    ELSE sh.raw_data.fields["lulc_statistics"].items
NonNegativeAreas ==
    /\ sh.raw_data.t = "dict"
    /\ DOMAIN sh.raw_data.fields \in { { "features" }, { "lulc_statistics" } }
    /\ \A key \in DOMAIN sh.raw_data.fields : sh.raw_data.fields[key].t = "list"
    /\ \A k \in 1..Len(ShEntries) :
          LET entry == ShEntries[k]
              holder == IF "features" \in DOMAIN sh.raw_data.fields
                        THEN entry.fields["properties"] ELSE entry
          IN  /\ entry.t = "dict"
              /\ "features" \in DOMAIN sh.raw_data.fields =>
                     ("properties" \in DOMAIN entry.fields /\ holder.t = "dict")
              /\ holder.fields["area"].t = "num"
              /\ holder.fields["area"].n >= 0

\* C14: when every per-class area of the provider response is non-negative,
\* the shaping step returns, and the percentage of the dominant class lies
\* between 0 and 100 and is 0 when total_area is 0.
C14_DominantPercentageInRange ==
    (sh.client = "lulc_aoi_wise" /\ NonNegativeAreas) =>
        /\ sh.res.kind = "return"
        /\ sh.res.summary.dominant_lulc_class # None =>
            LET dominant == sh.res.summary.dominant_lulc_class[1]
            IN  /\ 0 <= dominant.percentage
                /\ dominant.percentage <= 100 * PercentUnit
                /\ sh.res.summary.total_area = 0 => dominant.percentage = 0

\* A 'lulc_statistics' response that repeats class 01: its dominant class
\* has area 2 of a total of 4.
C14_Witness ==
    /\ sh.client = "lulc_aoi_wise"
    /\ NonNegativeAreas
    /\ "lulc_statistics" \in DOMAIN sh.raw_data.fields
    /\ Len(ShEntries) = 3
    /\ ShEntries[1] = ShEntries[3]
    /\ sh.res.kind = "return"
    /\ sh.res.summary.total_area = 4
    /\ sh.res.summary.dominant_lulc_class # None
    /\ sh.res.summary.dominant_lulc_class[1].percentage = 50 * PercentUnit

\* C15: whatever parseable JSON value the provider returned, the shaping
\* step of a client returns and its summary carries every documented field.
C15_ShapingNeverRaises ==
    sh.client # "none" =>
        /\ sh.res.kind = "return"
        /\ SummaryFields(sh.client) \subseteq DOMAIN sh.res.summary

(***************************************************************************)
(* Properties of one client operation (SpecClient)                         *)
(***************************************************************************)

\* C16: a client operation makes at most one outbound call, none when a
\* local check rejected the input, and exactly one when it ended without
\* such a rejection.
C16_AtMostOneOutboundCall ==
    /\ op.phase # "idle" => op.calls <= 1
    /\ op.phase = "done" => (op.calls = IF op.rejected THEN 0 ELSE 1)

\* A routing operation that ended with an error after its one request
\* failed.
C16_Witness ==
    /\ op.client = "routing"
    /\ op.phase = "done"
    /\ ~op.rejected
    /\ op.answer = "http_error"
    /\ op.calls = 1

OpFailedWrites == { k \in 1..Len(op.writes) : ~op.writes[k].ok }

\* C17: when a file write of a client operation failed (the JSON artifact
\* or the geoid zip file), the operation still returns, and it returns what
\* it returns for the same provider answer when every write succeeds.
C17_WriteFailureNeverSurfaces ==
    (op.phase = "done" /\ OpFailedWrites # {}) =>
        /\ op.res.kind = "return"
        /\ op.res = after_response(op, op.answer, TRUE, TRUE).res

\* C18: a Bhuvan client operation that made its outbound call, whether the
\* call succeeded or failed, has attempted to write a JSON artifact by the
\* time it returns or raises.
C18_EveryInteractionWritesArtifact ==
    (op.phase = "done" /\ op.client \in BhuvanClients /\ op.calls = 1) =>
        \E k \in 1..Len(op.writes) : op.writes[k].file = "json"

(***************************************************************************)
(* Properties of the KGIS services and endpoints (SpecKgis)                *)
(***************************************************************************)

\* C19: get_geometric_polygon never raises; when the request or the parsing
\* of its answer failed it returns {polygons: []}, otherwise {polygons: data}
\* with the provider's data.
C19_PolygonLookupNeverRaises ==
    kg.service = "geo-polygon-area" =>
        /\ kg.called.kind = "return"
        /\ kg.answer \in { "not_json", "http_error" } =>
               kg.called.value = JDict([polygons |-> JList(<<>>)])
        /\ kg.answer = "found" =>
               kg.called.value = JDict([polygons |-> JList(<<FoundRecord>>)])

\* The polygon lookup whose request failed, answered with an empty list.
C19_Witness ==
    /\ kg.service = "geo-polygon-area"
    /\ kg.answer = "http_error"
    /\ kg.phase = "responded"
    /\ kg.called.kind = "return"
    /\ kg.out.kind = "response"
    /\ kg.out.body["polygons"] = JList(<<>>)

\* The field of a hierarchy response that carries the message for the
\* caller.
KgMessage ==
    LET body == kg.out.body
    IN  IF "message" \in DOMAIN body THEN body["message"]
        ELSE IF "keymsg" \in DOMAIN body THEN body["keymsg"]
        ELSE IF kg.service = "district-name" THEN body["districtCode"]
        ELSE JNull

\* C20: when the provider call of a hierarchy endpoint failed or gave an
\* empty or non-list body, the endpoint answers with a response of its
\* schema that carries a message, and nothing is raised.
C20_HierarchyFailureGivesMessage ==
    (/\ kg.service \in HierarchyEndpoints
     /\ kg.phase = "responded"
     /\ kg.answer \in { "empty_list", "dict_body", "not_json", "http_error" }) =>
        /\ kg.out.kind = "response"
        /\ KgMessage # JNull

(***************************************************************************)
(* The routing pre-flight check (SpecRouting)                              *)
(***************************************************************************)

\* The request was turned away before any outbound call.
RtRejected == rt.phase = "done" /\ rt.provider = "not called"

\* The request went out to the provider.
RtAccepted == rt.phase = "sent" \/ (rt.phase = "done" /\ rt.provider # "not called")

RtInCommonBox == InCommonBox(rt.start[1], rt.start[2], rt.end[1], rt.end[2])

\* C21: with a credential configured, the pre-flight check rejects a pair
\* (and no outbound call is made) exactly when the distance is above
\* 1000 km, or no single regional box holds both points and the distance is
\* at least 500 km; every other pair is accepted and goes out, in particular
\* a pair inside one common box at any distance up to 1000 km.
C21_PreflightRejectsExactly ==
    (rt.phase \in { "sent", "done" } /\ Truthy(rt.api_token)) =>
        LET far == RtDistance > 1000 * 1000
            apart == ~RtInCommonBox /\ RtDistance >= 500 * 1000
        IN  /\ RtRejected <=> (far \/ apart)
            /\ RtAccepted <=> ~(far \/ apart)
            /\ RtRejected => rt.res.outbound = <<>> /\ rt.res.error # None
            /\ (RtAccepted /\ rt.phase = "done") => Len(rt.res.outbound) = 1

\* C21 witness: Bengaluru to Pune, 716 km apart and both inside the
\* Karnataka box, was accepted and the query went out.
C21_Witness ==
    /\ rt.phase = "done"
    /\ rt.start = <<26, 155>> /\ rt.end = <<37, 148>>
    /\ RtInCommonBox
    /\ RtDistance > 500 * 1000 /\ RtDistance <= 1000 * 1000
    /\ RtAccepted
    /\ Len(rt.res.outbound) = 1

\* C21 second case: Mumbai to Bengaluru, between 500 and 1000 km apart and in
\* no common box, was rejected without a call.
C21_WitnessApart ==
    /\ RtRejected
    /\ rt.start = <<38, 146>> /\ rt.end = <<26, 155>>
    /\ ~RtInCommonBox
    /\ RtDistance >= 500 * 1000 /\ RtDistance <= 1000 * 1000

(***************************************************************************)
(* The routing summary (SpecRouting)                                       *)
(***************************************************************************)

\* get_route returned what _format_response made of a JSON answer.
RtShaped == rt.phase = "done" /\ rt.provider = "geojson" /\ rt.res.error = None

\* The distances the features of the answer supply, added up.
RECURSIVE SuppliedDistance(_)
SuppliedDistance(features) ==
    IF features = <<>> THEN 0
    ELSE LET props == IF "properties" \in DOMAIN Head(features).fields
                      THEN Head(features).fields["properties"]
                      ELSE JDict(<<>>)
             distance == or(get(props, "distance", JNum(0)),
                            get(props, "length", JNum(0)))
         IN  (IF distance.t = "num" THEN distance.n ELSE 0)
             + SuppliedDistance(Tail(features))

\* C22: in every routing summary with route_found true, the estimated
\* duration in minutes is distance_km * 60 / 40, whether the supplied segment
\* distances add up to at most 1000 or to more, and for a direct LineString.
C22_DurationIsDistanceAt40 ==
    (RtShaped /\ rt.res.summary.route_found) =>
        rt.res.summary.estimated_duration_minutes * 40
            = rt.res.summary.distance_km * 60

\* The Haversine length, in metres, of the line strings an answer carries:
\* of a feature's LineString or MultiLineString geometry, and of a direct
\* LineString.
RECURSIVE LinesLength(_)
LinesLength(lines) ==
    IF lines = <<>> THEN 0
    ELSE calculate_line_distance(Head(lines).items).value + LinesLength(Tail(lines))

GeometryLength(geometry) ==
    IF geometry.fields["type"].s = "MultiLineString"
    THEN LinesLength(geometry.fields["coordinates"].items)
    ELSE calculate_line_distance(geometry.fields["coordinates"].items).value

RECURSIVE FeaturesLength(_)
FeaturesLength(features) ==
    IF features = <<>> THEN 0
    ELSE (IF "geometry" \in DOMAIN Head(features).fields
          THEN GeometryLength(Head(features).fields["geometry"]) ELSE 0)
         + FeaturesLength(Tail(features))

RtFeatures == rt.raw_data.fields["features"].items

RtIsCollection ==
    /\ RtShaped /\ rt.res.summary.route_found
    /\ "features" \in DOMAIN rt.raw_data.fields

RtIsLineString ==
    /\ RtShaped /\ rt.res.summary.route_found
    /\ "features" \notin DOMAIN rt.raw_data.fields

\* C23: in a successful routing response distance_km is the sum of the
\* segment distances the provider supplies when a feature supplies one
\* (taken as metres above 1000); when none does -- a feature collection with
\* geometry only, or a direct LineString -- it is the sum of the Haversine
\* distances between consecutive vertices, so a found route over two or more
\* distinct vertices never reports distance 0.
C23_DistanceSuppliedOrHaversine ==
    /\ (RtIsCollection /\ SuppliedDistance(RtFeatures) > 0) =>
          rt.res.summary.distance_km = distance_km(SuppliedDistance(RtFeatures))
    /\ (RtIsCollection /\ SuppliedDistance(RtFeatures) = 0) =>
          rt.res.summary.distance_km
              = FeaturesLength(RtFeatures) * (RouteUnit \div 1000)
    /\ (RtIsLineString /\ "coordinates" \in DOMAIN rt.raw_data.fields) =>
          rt.res.summary.distance_km
              = calculate_line_distance(rt.raw_data.fields["coordinates"].items).value
                * (RouteUnit \div 1000)

(***************************************************************************)
(* The order of a handler's steps (Spec)                                   *)
(***************************************************************************)

\* The input records that reference the audit record of request r.
InputsOf(r) == { i \in inputs : i.api_request = req[r].pk }

Started(r) == req[r].pc # "idle"

\* C24: for every request the audit record is created pending, then exactly
\* one input record referencing it, then the client is invoked, then the
\* audit record is updated: the client is never invoked before both records
\* exist, the audit record is pending until the client has been invoked, and
\* an input record, once created, is never changed or removed.
C24_HandlerStepOrder ==
    /\ [](\A r \in Slots :
            /\ Started(r) => req[r].pk \in 1..Len(audit)
            /\ req[r].pc = "input" => InputsOf(r) = {}
            /\ req[r].pc \in { "call", "save", "return" } =>
                  /\ Cardinality(InputsOf(r)) = 1
                  /\ \A i \in InputsOf(r) :
                        i.endpoint = req[r].endpoint /\ i.body = req[r].body
            /\ ClientCalled(r) => Cardinality(InputsOf(r)) = 1
            /\ (Started(r) /\ req[r].pc \in { "input", "call", "save" }) =>
                  audit[req[r].pk].status = "pending"
            /\ (Started(r) /\ audit[req[r].pk].status # "pending") =>
                  ClientCalled(r))
    /\ [][inputs \subseteq inputs']_vars

\* C24 witness: a request has gone through all four steps: its audit record
\* is updated, its one input record is in place and the client was invoked.
C24_Witness ==
    \E r \in Slots :
        /\ Finished(r) /\ ClientCalled(r)
        /\ audit[req[r].pk].status = "success"
        /\ Cardinality(InputsOf(r)) = 1

(***************************************************************************)
(* validate_tokens (SpecTokens)                                            *)
(***************************************************************************)

\* The essential services that have neither their own token nor the legacy
\* token.
Unserved ==
    { essential_services[k] : k \in { j \in 1..Len(essential_services) :
          /\ ~Truthy(tokens[essential_services[j]])
          /\ ~Truthy(tokens["legacy"]) } }

SeqRange(seq) == { seq[k] : k \in 1..Len(seq) }

\* C25: validate_tokens returns a status dict for every configuration and
\* does not raise: valid is false and missing_essential lists the service
\* when an essential service has neither its own token nor the legacy token;
\* otherwise valid is true and every essential service is in
\* available_services.
C25_ValidateTokensReturnsStatus ==
    tk.op = "validate_tokens" =>
        /\ tk.res.kind = "return"
        /\ tk.res.value.valid = (Unserved = {})
        /\ SeqRange(tk.res.value.missing_essential) = Unserved
        /\ Unserved = {} =>
              SeqRange(tk.res.value.available_services) = SeqRange(essential_services)

(***************************************************************************)
(* The year of a thematic-statistics query (SpecParams)                    *)
(***************************************************************************)

PqFromHandler == pq.client = "lulc_statistics" /\ "payload" \in DOMAIN pq

PqSuppliesYear == "year" \in DOMAIN pq.payload /\ pq.payload.year # None

\* C26: the outbound query of a /thematic_statistics request carries the
\* caller's year when the request supplies one, and the default '1112' when
\* the request omits year.
C26_ThematicYearDefault ==
    PqFromHandler =>
        pq.params.year = IF PqSuppliesYear THEN pq.payload.year ELSE Some("1112")

(***************************************************************************)
(* List-shaped answers to a village lookup (SpecShaping)                   *)
(***************************************************************************)

ShVillageList ==
    /\ sh.client = "village_geocoding"
    /\ sh.raw_data.t = "list" /\ sh.raw_data.items # <<>>

\* C27: for a provider response that is a non-empty list, the village
\* geocoding summary has found true, and state, district, population and
\* coordinates are those of the first element.
C27_VillageListHandled ==
    ShVillageList =>
        /\ sh.res.kind = "return"
        /\ sh.res.summary.found
        /\ sh.res.summary = village_list_branch(sh.raw_data)

(***************************************************************************)
(* Requests handled concurrently (Spec)                                    *)
(***************************************************************************)

\* Request r has saved its audit record.
Saved(r) == req[r].pc \in { "return", "done" } /\ ClientCalled(r)

\* C28: in every interleaving of the handlers each request creates its own
\* audit record and updates only that one: the saved status, payload and
\* error message of a record are those of the request that created it, and
\* no step changes or removes a record of another request (the log only
\* grows).
C28_RequestsKeepToTheirOwnRecord ==
    /\ [](\A r \in Slots :
            /\ Started(r) =>
                  /\ req[r].pk \in 1..Len(audit)
                  /\ audit[req[r].pk].endpoint = req[r].endpoint
                  /\ \A q \in Slots \ { r } : Started(q) => req[q].pk # req[r].pk
            /\ Saved(r) =>
                  /\ audit[req[r].pk] = req[r].api_request
                  /\ IF ClientOutcomeOf(r).kind = "return"
                     THEN /\ audit[req[r].pk].status = "success"
                          /\ audit[req[r].pk].response_data = Some(ClientOutcomeOf(r))
                          /\ audit[req[r].pk].error_message = None
                     ELSE /\ audit[req[r].pk].status = "failed"
                          /\ audit[req[r].pk].error_message = ClientOutcomeOf(r).error
            /\ (Started(r) /\ ~Saved(r)) => audit[req[r].pk] = NewApiRequest(req[r].endpoint))
    /\ [][/\ Len(audit') >= Len(audit)
          /\ \A k \in 1..Len(audit) :
                audit'[k] # audit[k] =>
                    \E r \in Slots : /\ req[r].pk = k
                                     /\ req[r].pc = "save"
                                     /\ audit'[k] = req[r].api_request]_vars

\* C28 witness: two requests overlapped -- the second was created after the
\* first and finished while the first had not yet returned -- and each
\* record carries the outcome of its own request, one success and one
\* failure.
C28_Witness ==
    /\ req[1].pc = "return" /\ Finished(2)
    /\ Saved(1) /\ Saved(2)
    /\ req[1].pk = 1 /\ req[2].pk = 2
    /\ audit[1].status = "failed" /\ audit[2].status = "success"
    /\ audit[1] = req[1].api_request /\ audit[2] = req[2].api_request

(***************************************************************************)
(* The total area of a LULC summary (SpecShaping)                          *)
(***************************************************************************)

\* The areas of the entries of lulc_classes, added up.
RECURSIVE SumOfAreas(_)
SumOfAreas(lulc_classes) ==
    IF lulc_classes = <<>> THEN 0
    ELSE Head(lulc_classes).area + SumOfAreas(Tail(lulc_classes))

\* C29: in every LULC summary total_area is the sum of the areas of the
\* entries of lulc_classes, for a response of the 'features' and of the
\* 'lulc_statistics' shape, also when it repeats a class code.
C29_TotalAreaIsSumOfClasses ==
    (sh.client = "lulc_aoi_wise" /\ sh.res.kind = "return") =>
        sh.res.summary.total_area = SumOfAreas(sh.res.summary.lulc_classes)

(***************************************************************************)
(* get_route under every provider outcome (SpecRouting)                    *)
(***************************************************************************)

\* get_route returned a response dict.
RtReturned == "route_data" \in DOMAIN rt.res

\* The provider outcome is one get_route answers with an error.
RtProviderFailed ==
    \/ rt.provider \in { "request_exception", "http_error", "text",
                         "json_decode_error" }
    \/ rt.provider = "geojson" /\ routing_format_response(rt.raw_data).kind = "raise"

\* C30: for well-formed coordinates get_route returns under every provider
\* outcome -- network error, non-2xx status, non-JSON text, unparsable JSON,
\* JSON of an unexpected shape -- and every result that carries an error has
\* no route data, route_found false, distance, duration and segment count 0,
\* and the same message at top level and in the summary.
C30_GetRouteNeverRaises ==
    rt.phase = "done" =>
        /\ RtReturned
        /\ RtProviderFailed => rt.res.error # None
        /\ rt.res.error # None =>
              /\ rt.res.route_data = None
              /\ rt.res.summary.route_found = FALSE
              /\ rt.res.summary.distance_km = 0
              /\ rt.res.summary.estimated_duration_minutes = 0
              /\ rt.res.summary.total_segments = 0
              /\ rt.res.summary.error = rt.res.error

\* C30 witness: the provider answered with a feature collection whose only
\* feature is a number; _format_response raised TypeError and get_route
\* returned the error response.
C30_Witness ==
    /\ rt.phase = "done" /\ rt.provider = "geojson"
    /\ rt.raw_data = JDict([features |-> JList(<<JNum(1)>>)])
    /\ routing_format_response(rt.raw_data) = ShRaise("TypeError")
    /\ RtReturned
    /\ rt.res.error = Some("Unexpected error")
    /\ rt.res.route_data = None

====
